---- MODULE Spec2Model ----
(***************************************************************************)
(* A model of the analyzer of the Elm interpreter: the statement           *)
(* dependency sorter (analyzer/dependency_sorter.rs), the declaration      *)
(* analyzer (analyzer/module_analyser.rs), the function type builder       *)
(* (util/mod.rs) and the block-structured environments                     *)
(* (analyzer/environment.rs, interpreter/dynamic_env.rs).                  *)
(*                                                                         *)
(* Each component has a specification of its own (SpecSort, SpecDecl,      *)
(* SpecEnv, SpecModule); the variables of the other components stay at     *)
(* their idle value.                                                       *)
(***************************************************************************)
EXTENDS Integers, Sequences, FiniteSets, TLC

VARIABLES
    \* ---- sort_statement_dependencies
    stms,          \* the argument: the statements in source order
    dependencies,  \* HashMap<&str, (&Statement, Vec<String>)>
    res,           \* Vec<&Statement>, the result being built
    leafs,         \* the leaves of the current round, in the map's iteration order
    pc,            \* position in the function
    \* ---- analyze_type_alias / analyze_adt / build_fun_type
    call,          \* the call made
    ret,           \* what it returned
    \* ---- Environment / DynamicEnv
    target,        \* which of the two environments is exercised
    env,           \* Environment.0: Vec<Block> (the defs map of each block)
    values,        \* DynamicEnv.values: Vec<HashMap<String, Value>>
    types,         \* DynamicEnv.types: the definitions of the StaticEnv's blocks
    next_fun_id,   \* DynamicEnv.next_fun_id
    cache,         \* DynamicEnv.cache
    status,        \* "ok", or "panic" once an operation has panicked
    last,          \* the last operation with what it observed
    opened,        \* per open enter_block: what every find returned before it
    \* ---- analyze_module_declarations
    m_stms,        \* the argument: the module's statements
    m_env,         \* the caller's StaticEnv (its definitions)
    m_result,      \* the value returned
    m_pc,          \* where analyze_module_declarations stands
    m_sorted,      \* the sorted statements still to analyze
    m_declarations,
    m_errors,
    \* the import linker
    impl,          \* which analyze_module_imports runs
    modules,       \* the analyzed modules: the target module, if it is there
    imports,       \* the argument: the import directives
    i_pos,         \* the import the loop stands at
    i_env,         \* the StaticEnv the imports are entered into
    i_ret,         \* the value returned
    i_after,       \* the environment as it was after each import
    i_pc,
    \* eval_statement
    e_stm,         \* the argument: the statement
    e_values,      \* DynamicEnv.values
    e_types,       \* DynamicEnv.types, the definitions of its blocks
    e_ret,         \* the value returned
    e_pc,
    \* get_stm_dependencies of a Def
    d_def,         \* the argument: the patterns and the expression of the Def
    d_env,         \* fake_env, the definitions of its blocks
    d_deps,        \* the value returned
    d_pc,
    \* read_token_forced
    t_input,       \* the argument: the characters to read
    t_token,       \* the token returned
    t_rest,        \* the input left
    t_pc

sortVars == <<stms, dependencies, res, leafs, pc>>
declVars == <<call, ret>>
envVars  == <<target, env, values, types, next_fun_id, cache, status, last, opened>>
modVars  == <<m_stms, m_env, m_result, m_pc, m_sorted, m_declarations, m_errors>>
impVars  == <<impl, modules, imports, i_pos, i_env, i_ret, i_after, i_pc>>
evalVars == <<e_stm, e_values, e_types, e_ret, e_pc>>
depVars  == <<d_def, d_env, d_deps, d_pc>>
tokVars  == <<t_input, t_token, t_rest, t_pc>>
vars     == <<sortVars, declVars, envVars, modVars, impVars, evalVars, depVars, tokVars>>

\* ------------------------------------------------------------------------
\* Bounds
MaxStms   == 4    \* statements of a module
MaxVars   == 2    \* declared type variables of an alias
MaxFields == 2    \* fields of a record, arguments of a variant
MaxVariants == 2  \* variants of an ADT
MaxBlocks == 2    \* nesting depth of the environment
MaxExposed == 2   \* items of an exposing list
MaxImports == 2   \* import directives of a module
MaxInput == 3     \* characters of the input before its last

None == "None"

Range(s) == {s[i] : i \in 1..Len(s)}

\* The permutations of a finite set, as sequences: the orders in which a
\* HashMap or HashSet may hand out its entries.
Orders(S) == {p \in [1..Cardinality(S) -> S] : \A i, j \in 1..Cardinality(S) : i # j => p[i] # p[j]}

\* The transitive closure of a relation.
RECURSIVE Closure(_)
Closure(R) ==
    LET Step == R \cup {<<p[1][1], p[2][2]>> : p \in {q \in R \X R : q[1][2] = q[2][1]}}
    IN  IF Step = R THEN R ELSE Closure(Step)

\* ------------------------------------------------------------------------
\* Statements, as far as the sorter reads them
Names   == {"T", "U", "X", "Y"}
NameSeq == <<"T", "U", "X", "Y", "Z">>
NameOf(i) == NameSeq[((i - 1) % Len(NameSeq)) + 1]

\* uses: the names the body mentions, in source order. For a Def the Ref
\* names of its expression, for an Adt the Tag names of the argument types
\* of its variants.
DefUses == {<<>>} \cup {<<n>> : n \in Names}

\* An Adt may mention a type twice, beside a second type.
AdtUses(self) ==
    LET Others == Names \ {self}
        Pairs  == {q \in Others \X Others : q[1] # q[2]}
    IN  DefUses
        \cup {<<n, n>> : n \in Others}
        \cup {<<q[1], q[2]>> : q \in Pairs}
        \cup {<<q[1], q[1], q[2]>> : q \in Pairs}

Def(name, uses) == [kind |-> "Def", name |-> name, uses |-> uses]
Adt(name, uses) == [kind |-> "Adt", name |-> name, uses |-> uses]

\* The statement lists examined: Defs with at most one reference each, named
\* by position, and either one Adt among them or, possibly, the last Def
\* declared under the name of the first.
DefList(n, du, dup) ==
    [i \in 1..n |-> Def(IF dup /\ i = n THEN NameOf(1) ELSE NameOf(i), du[i])]

WithAdt(ss, a, au) == [ss EXCEPT ![a] = Adt(NameOf(a), au)]

\* The constructor that the Adt statement of a name declares (analyze_adt
\* emits a Def under the name of each variant, not under the name of the type).
CtorOf(name) == CASE name = "T" -> "MkT" [] name = "U" -> "MkU"
                  [] name = "X" -> "MkX" [] name = "Y" -> "MkY" [] OTHER -> "MkZ"

\* The i-th statement is a Def whose expression uses the constructor of the
\* Adt that stands at a.
WithCtorUse(ss, i, a) == [ss EXCEPT ![i] = Def(NameOf(i), <<CtorOf(NameOf(a))>>)]

\* Statement::Infix(_, _, op, def): the operator op stands for the value def.
\* get_stm_dependencies gives it no dependencies.
Infix(op, def) == [kind |-> "Infix", name |-> op, uses |-> <<>>, def |-> def]

WithInfix(ss, i, def) == [ss EXCEPT ![i] = Infix(NameOf(i), def)]

get_stm_name(stm) == stm.name

\* get_type_dependencies collects into a HashSet; of a Tag type without
\* arguments the set holds its name alone.
get_type_dependencies(ty) == <<ty>>

RECURSIVE Flatten(_)
Flatten(ss) == IF ss = <<>> THEN <<>> ELSE Head(ss) \o Flatten(Tail(ss))

\* The possible results of get_stm_dependencies: a Def's references come out
\* of a HashSet (each once, in any order), an Adt's are the concatenation of
\* the dependencies of each argument type (repetitions kept, source order).
get_stm_dependencies(stm) ==
    IF stm.kind = "Def"
    THEN Orders(Range(stm.uses))
    ELSE {Flatten([i \in 1..Len(stm.uses) |-> get_type_dependencies(stm.uses[i])])}

\* One result of get_stm_dependencies for each statement of ss.
RECURSIVE DependencyChoices(_)
DependencyChoices(ss) ==
    IF ss = <<>> THEN {<<>>}
    ELSE {<<d>> \o r : d \in get_stm_dependencies(Head(ss)), r \in DependencyChoices(Tail(ss))}

local_names(ss) == {get_stm_name(ss[i]) : i \in 1..Len(ss)}

FilterLocal(deps, ss) == SelectSeq(deps, LAMBDA d : d \in local_names(ss))

\* Vec::remove(index): panics when index is out of bounds.
VecRemove(v, index) ==
    IF index + 1 > Len(v)
    THEN [ok |-> FALSE, v |-> v]
    ELSE [ok |-> TRUE, v |-> [i \in 1..(Len(v) - 1) |-> IF i < index + 1 THEN v[i] ELSE v[i + 1]]]

\* lines 59-63: the (0-based) indexes at which leaf_name stands in deps.
IndexesOf(deps, leaf_name) ==
    LET hits == {i \in 1..Len(deps) : deps[i] = leaf_name}
        RECURSIVE asc(_)
        asc(S) == IF S = {} THEN <<>>
                  ELSE LET m == CHOOSE x \in S : \A y \in S : x <= y
                       IN  <<m - 1>> \o asc(S \ {m})
    IN  asc(hits)

\* lines 65-67: remove at each collected index, one after the other.
RECURSIVE RemoveIndexes(_, _)
RemoveIndexes(deps, indexes) ==
    IF indexes = <<>> THEN [ok |-> TRUE, v |-> deps]
    ELSE LET r == VecRemove(deps, Head(indexes))
         IN  IF r.ok THEN RemoveIndexes(r.v, Tail(indexes)) ELSE r

PurgeDeps(deps, leaf_name) == RemoveIndexes(deps, IndexesOf(deps, leaf_name))

\* lines 21-28: insert every statement under its name; a later insert under
\* the same name replaces the earlier entry.
RECURSIVE InsertAll(_, _, _)
InsertAll(map, ss, deps) ==
    IF ss = <<>> THEN map
    ELSE LET nm  == get_stm_name(Head(ss))
             ent == [stm |-> Head(ss), deps |-> Head(deps)]
         IN  InsertAll([k \in DOMAIN map \cup {nm} |-> IF k = nm THEN ent ELSE map[k]],
                       Tail(ss), Tail(deps))

EmptyMap == [k \in {} |-> 0]

SortIdle == /\ stms = <<>> /\ dependencies = EmptyMap /\ res = <<>>
            /\ leafs = <<>> /\ pc = "idle"

NoCall == [fn |-> "none", name |-> "", decl_vars |-> <<>>, body |-> <<>>, order |-> <<>>]
NoRet  == [kind |-> "None", decls |-> <<>>, err |-> "", names |-> <<>>]

DeclIdle == call = NoCall /\ ret = NoRet

NoOp == [op |-> "none", name |-> "", val |-> 0, ty |-> "", matched |-> FALSE,
         before |-> [env |-> <<>>, values |-> <<>>, types |-> <<>>], seen |-> EmptyMap]

EnvIdle == /\ target = None /\ env = <<>> /\ values = <<>> /\ types = <<>>
           /\ next_fun_id = 0 /\ cache = {} /\ status = "idle"
           /\ last = NoOp /\ opened = <<>>

EmptyEnv == [definitions |-> EmptyMap, aliases |-> EmptyMap, adts |-> EmptyMap]
NoResult == [kind |-> "None", decls |-> <<>>, err |-> "", names |-> <<>>, errors |-> <<>>]

ModIdle == /\ m_stms = <<>> /\ m_env = EmptyEnv /\ m_result = NoResult
           /\ m_pc = "idle" /\ m_sorted = <<>> /\ m_declarations = <<>> /\ m_errors = <<>>

NoImportResult == [kind |-> "None", err |-> "", name |-> <<>>, decls |-> <<>>]

ImpIdle == /\ impl = None /\ modules = <<>> /\ imports = <<>> /\ i_pos = 0
           /\ i_env = EmptyEnv /\ i_ret = NoImportResult /\ i_after = <<>>
           /\ i_pc = "idle"

NoStatement == [kind |-> "None", name |-> "", vars |-> <<>>, variants |-> <<>>, ty |-> "None"]
NoEvalResult == "None"

EvalIdle == /\ e_stm = NoStatement /\ e_values = <<>> /\ e_types = <<>>
            /\ e_ret = NoEvalResult /\ e_pc = "idle"

NoDefinition == [patterns |-> <<>>, expr |-> <<>>]

DepIdle == /\ d_def = NoDefinition /\ d_env = <<>> /\ d_deps = <<>> /\ d_pc = "idle"

NoToken == [token |-> "None", text |-> <<>>]

TokIdle == /\ t_input = <<>> /\ t_token = NoToken /\ t_rest = <<>> /\ t_pc = "idle"

\* ------------------------------------------------------------------------
\* sort_statement_dependencies, step by step

InitSort ==
    /\ \E n \in 1..MaxStms : \E du \in [1..n -> DefUses] :
          \/ \E dup \in BOOLEAN : stms = DefList(n, du, dup)
          \/ \E a \in 1..n : \E au \in AdtUses(NameOf(a)) :
                stms = WithAdt(DefList(n, du, FALSE), a, au)
          \/ \E a, i \in 1..n : \E au \in DefUses :
                /\ a # i /\ du[a] = <<>> /\ du[i] = <<>>
                /\ stms = WithCtorUse(WithAdt(DefList(n, du, FALSE), a, au), i, a)
    /\ dependencies = EmptyMap
    /\ res = <<>>
    /\ leafs = <<>>
    /\ pc = "build"
    /\ DeclIdle /\ EnvIdle /\ ModIdle /\ ImpIdle /\ EvalIdle
    /\ DepIdle /\ TokIdle

\* lines 16-28
BuildDependencies ==
    /\ pc = "build"
    /\ \E deps \in DependencyChoices(stms) :
          dependencies' = InsertAll(EmptyMap, stms,
                                    [i \in 1..Len(stms) |-> FilterLocal(deps[i], stms)])
    /\ pc' = "loop"
    /\ UNCHANGED <<stms, res, leafs>>
    /\ UNCHANGED <<declVars, envVars, modVars, impVars, evalVars, depVars, tokVars>>

LeafNames(map) == {k \in DOMAIN map : map[k].deps = <<>>}

\* lines 32-36, leaves found: they are taken in the map's iteration order
SelectLeafs ==
    /\ pc = "loop"
    /\ DOMAIN dependencies # {}
    /\ LeafNames(dependencies) # {}
    /\ \E order \in Orders(LeafNames(dependencies)) : leafs' = order
    /\ pc' = "leafs"
    /\ UNCHANGED <<stms, dependencies, res>>
    /\ UNCHANGED <<declVars, envVars, modVars, impVars, evalVars, depVars, tokVars>>

\* A slip: the statements left over taken in reverse.
MissingReversed(ss, emitted) ==
    LET m == SelectSeq(ss, LAMBDA it : it \notin Range(emitted))
    IN  [i \in 1..Len(m) |-> m[Len(m) + 1 - i]]

\* lines 42-44
Missing(ss, emitted) == SelectSeq(ss, LAMBDA it : it \notin Range(emitted))

\* lines 38-51: no leaf although statements remain
CycleFallback ==
    /\ pc = "loop"
    /\ DOMAIN dependencies # {}
    /\ LeafNames(dependencies) = {}
    /\ res' = res \o Missing(stms, res)
    /\ pc' = "cycle"
    /\ UNCHANGED <<stms, dependencies, leafs>>
    /\ UNCHANGED <<declVars, envVars, modVars, impVars, evalVars, depVars, tokVars>>

\* lines 53-69, one leaf: push it, remove it, purge its name
ProcessLeaf ==
    /\ pc = "leafs"
    /\ leafs # <<>>
    /\ LET leaf_name == Head(leafs)
           rest      == DOMAIN dependencies \ {leaf_name}
           purged    == [k \in rest |-> PurgeDeps(dependencies[k].deps, leaf_name)]
       IN  /\ res' = Append(res, dependencies[leaf_name].stm)
           /\ dependencies' = [k \in rest |-> [stm |-> dependencies[k].stm, deps |-> purged[k].v]]
           /\ leafs' = Tail(leafs)
           /\ pc' = IF \E k \in rest : ~purged[k].ok THEN "panic"
                    ELSE IF Tail(leafs) = <<>> THEN "loop" ELSE "leafs"
    /\ UNCHANGED stms
    /\ UNCHANGED <<declVars, envVars, modVars, impVars, evalVars, depVars, tokVars>>

\* line 72
ReturnSorted ==
    /\ pc = "loop"
    /\ DOMAIN dependencies = {}
    /\ pc' = "done"
    /\ UNCHANGED <<stms, dependencies, res, leafs>>
    /\ UNCHANGED <<declVars, envVars, modVars, impVars, evalVars, depVars, tokVars>>

NextSort ==
    \/ BuildDependencies
    \/ SelectLeafs
    \/ CycleFallback
    \/ ProcessLeaf
    \/ ReturnSorted

SpecSort == InitSort /\ [][NextSort]_vars

\* ------------------------------------------------------------------------
\* Types (ast::Type) and declarations (loader::Declaration)

Var(n)         == [t |-> "Var", name |-> n, args |-> <<>>, fields |-> <<>>]
Tag(n, as)     == [t |-> "Tag", name |-> n, args |-> as, fields |-> <<>>]
Fun(a, b)      == [t |-> "Fun", name |-> "", args |-> <<a, b>>, fields |-> <<>>]
Unit           == [t |-> "Unit", name |-> "", args |-> <<>>, fields |-> <<>>]
\* Record(Vec<(String, Type)>): the field names and, beside them, their types
Record(fs, ts) == [t |-> "Record", name |-> "", args |-> ts, fields |-> fs]

NoAdt == [name |-> "", types |-> <<>>, variants |-> <<>>]

DeclAlias(n, ty) == [d |-> "Alias", name |-> n, ty |-> ty, adt |-> NoAdt]
DeclDef(n, ty)   == [d |-> "Def", name |-> n, ty |-> ty, adt |-> NoAdt]
DeclAdt(n, adt)  == [d |-> "Adt", name |-> n, ty |-> Unit, adt |-> adt]

Ok(decls)       == [kind |-> "Ok", decls |-> decls, err |-> "", names |-> <<>>]
Err(err, names) == [kind |-> "Err", decls |-> <<>>, err |-> err, names |-> names]
Panic           == [kind |-> "Panic", decls |-> <<>>, err |-> "", names |-> <<>>]

\* The types examined
TypeVars   == {"a", "b"}
LeafTypes  == {Unit, Tag("Int", <<>>)} \cup {Var(v) : v \in TypeVars}
FieldNames == <<"x", "y", "z", "w">>
RecordTypes ==
    UNION {{Record([i \in 1..n |-> FieldNames[i]], ts) : ts \in [1..n -> LeafTypes]} :
           n \in 0..MaxFields}
AliasBodies ==
    LeafTypes
    \cup {Fun(p[1], p[2]) : p \in LeafTypes \X LeafTypes}
    \cup {Tag("List", <<l>>) : l \in LeafTypes}
    \cup RecordTypes
DeclVars == UNION {[1..n -> TypeVars] : n \in 0..MaxVars}

VariantNames == <<"A", "B", "C", "D">>
VariantTypes == {Tag("Int", <<>>), Var("a")}
VariantArgs  == UNION {[1..n -> VariantTypes] : n \in 0..MaxFields}
Variants ==
    UNION {{[i \in 1..n |-> [name |-> VariantNames[i], types |-> as[i]]] :
                as \in [1..n -> VariantArgs]} :
           n \in 1..MaxVariants}
AdtVars == {<<>>, <<"a">>}

\* type_visitor: the callback is run on the node and on every node below it.
RECURSIVE type_visitor(_)
type_visitor(ty) ==
    {ty} \cup UNION {type_visitor(ty.args[i]) : i \in 1..Len(ty.args)}

\* lines 188-194: the names of the Var nodes, in a HashSet
used_vars(ty) == {n.name : n \in {m \in type_visitor(ty) : m.t = "Var"}}

\* util::build_fun_type: asserts that it is given at least two types
build_fun_type(tys) ==
    LET RECURSIVE chain(_)
        chain(ts) == IF Len(ts) = 2 THEN Fun(ts[1], ts[2])
                     ELSE Fun(ts[1], chain(Tail(ts)))
    IN  IF Len(tys) >= 2 THEN [ok |-> TRUE, ty |-> chain(tys)]
        ELSE [ok |-> FALSE, ty |-> Unit]

create_vec_inv(start, lst) == Append(start, lst)

\* A slip: every used variable is reported, declared or not.
analyze_type_alias_all(name, decl_vars, ty, order) ==
    LET used == used_vars(ty)
    IN  IF Cardinality(used) < Len(decl_vars)
        THEN Err("UnusedTypeVariables", SelectSeq(decl_vars, LAMBDA v : v \notin used))
        ELSE IF Cardinality(used) > Len(decl_vars)
        THEN Err("UndeclaredTypeVariables", order)
        ELSE IF ty.t = "Record"
        THEN LET f == build_fun_type(Append(ty.args, ty))
             IN  IF f.ok THEN Ok(<<DeclAlias(name, ty), DeclDef(name, f.ty)>>) ELSE Panic
        ELSE Ok(<<DeclAlias(name, ty)>>)

\* analyze_type_alias; order is the order in which the HashSet used_vars
\* hands out its elements.
analyze_type_alias(name, decl_vars, ty, order) ==
    LET used == used_vars(ty)
    IN  IF Cardinality(used) < Len(decl_vars)
        THEN Err("UnusedTypeVariables", SelectSeq(decl_vars, LAMBDA v : v \notin used))
        ELSE IF Cardinality(used) > Len(decl_vars)
        THEN Err("UndeclaredTypeVariables", SelectSeq(order, LAMBDA v : v \notin Range(decl_vars)))
        ELSE IF ty.t = "Record"
        THEN LET f == build_fun_type(Append(ty.args, ty))
             IN  IF f.ok THEN Ok(<<DeclAlias(name, ty), DeclDef(name, f.ty)>>) ELSE Panic
        ELSE Ok(<<DeclAlias(name, ty)>>)

\* analyze_adt: the loop of lines 178-182 stops at the first variant for
\* which build_fun_type panics.
analyze_adt(name, decl_vars, variants) ==
    LET tvars    == [i \in 1..Len(decl_vars) |-> Var(decl_vars[i])]
        adt      == [name |-> name, types |-> decl_vars, variants |-> variants]
        adt_type == Tag(name, tvars)
        built    == [i \in 1..Len(variants) |->
                        build_fun_type(create_vec_inv(variants[i].types, adt_type))]
    IN  IF \E i \in 1..Len(variants) : ~built[i].ok THEN Panic
        ELSE Ok(<<DeclAdt(name, adt)>> \o
                [i \in 1..Len(variants) |-> DeclDef(variants[i].name, built[i].ty)])

InitDecl ==
    /\ call = NoCall
    /\ ret = NoRet
    /\ SortIdle /\ EnvIdle /\ ModIdle /\ ImpIdle /\ EvalIdle
    /\ DepIdle /\ TokIdle

CallAnalyzeTypeAlias ==
    /\ call = NoCall
    /\ \E decl_vars \in DeclVars : \E ty \in AliasBodies : \E order \in Orders(used_vars(ty)) :
          /\ call' = [fn |-> "analyze_type_alias", name |-> "A", decl_vars |-> decl_vars,
                      body |-> ty, order |-> order]
          /\ ret' = analyze_type_alias("A", decl_vars, ty, order)
    /\ UNCHANGED <<sortVars, envVars, modVars, impVars, evalVars, depVars, tokVars>>

CallAnalyzeAdt ==
    /\ call = NoCall
    /\ \E decl_vars \in AdtVars : \E variants \in Variants :
          /\ call' = [fn |-> "analyze_adt", name |-> "T", decl_vars |-> decl_vars,
                      body |-> variants, order |-> <<>>]
          /\ ret' = analyze_adt("T", decl_vars, variants)
    /\ UNCHANGED <<sortVars, envVars, modVars, impVars, evalVars, depVars, tokVars>>

NextDecl ==
    \/ CallAnalyzeTypeAlias
    \/ CallAnalyzeAdt

SpecDecl == InitDecl /\ [][NextDecl]_vars

\* ------------------------------------------------------------------------
\* Environment (analyzer/environment.rs) and DynamicEnv
\* (interpreter/dynamic_env.rs)

EnvNames == {"x", "y"}
Vals     == {1, 2}
NoVal    == 0
NoTy     == ""
Tys      == {"Int", "Float"}

Pop(stack) == SubSeq(stack, 1, Len(stack) - 1)
Insert(map, k, v) == [n \in DOMAIN map \cup {k} |-> IF n = k THEN v ELSE map[n]]
InsertLast(stack, k, v) == [stack EXCEPT ![Len(stack)] = Insert(stack[Len(stack)], k, v)]

\* Environment::new: a single block
Environment_new == <<EmptyMap>>

\* Environment::add: last_mut().unwrap() panics on an empty stack
Environment_add(e, name, def) ==
    IF e = <<>> THEN [ok |-> FALSE, e |-> e]
    ELSE [ok |-> TRUE, e |-> InsertLast(e, name, def)]

\* A slip: the blocks are searched from the outermost.
RECURSIVE Environment_find_outer(_, _)
Environment_find_outer(e, name) ==
    IF e = <<>> THEN NoVal
    ELSE IF name \in DOMAIN Head(e) THEN Head(e)[name]
    ELSE Environment_find_outer(Tail(e), name)

\* Environment::find: self.0.iter().rev()
RECURSIVE Environment_find(_, _)
Environment_find(e, name) ==
    IF e = <<>> THEN NoVal
    ELSE IF name \in DOMAIN e[Len(e)] THEN e[Len(e)][name]
    ELSE Environment_find(Pop(e), name)

\* Environment::enter_block
Environment_enter_block(e) == Append(e, EmptyMap)

\* A slip: the bindings of the block that is left are kept in the block below.
Environment_exit_block_keep(e) ==
    IF e = <<>> THEN [ok |-> FALSE, e |-> e]
    ELSE IF Len(e) = 1 THEN [ok |-> TRUE, e |-> <<>>]
    ELSE [ok |-> TRUE,
          e |-> [Pop(e) EXCEPT ![Len(e) - 1] =
                    [n \in DOMAIN e[Len(e)] \cup DOMAIN e[Len(e) - 1] |->
                        IF n \in DOMAIN e[Len(e)] THEN e[Len(e)][n] ELSE e[Len(e) - 1][n]]]]

\* Environment::exit_block: pop() is None, and expect panics, only on an
\* empty stack
Environment_exit_block(e) ==
    IF e = <<>> THEN [ok |-> FALSE, e |-> e]
    ELSE [ok |-> TRUE, e |-> Pop(e)]

\* StaticEnv, the definitions of its blocks
StaticEnv_new == <<EmptyMap>>
StaticEnv_add_definition(t, name, ty) == InsertLast(t, name, ty)
RECURSIVE StaticEnv_find_definition(_, _)
StaticEnv_find_definition(t, name) ==
    IF t = <<>> THEN NoTy
    ELSE IF name \in DOMAIN t[Len(t)] THEN t[Len(t)][name]
    ELSE StaticEnv_find_definition(Pop(t), name)
StaticEnv_enter_block(t) == Append(t, EmptyMap)
\* fails when it is used to pop the global block
StaticEnv_exit_block(t) ==
    IF Len(t) <= 1 THEN [ok |-> FALSE, t |-> t] ELSE [ok |-> TRUE, t |-> Pop(t)]

\* A find that looks in the global block alone
DynamicEnv_find_global(vs, t, name) ==
    IF vs = <<>> \/ name \notin DOMAIN vs[1] THEN <<NoVal, NoTy>>
    ELSE IF StaticEnv_find_definition(t, name) = NoTy THEN <<NoVal, NoTy>>
    ELSE <<vs[1][name], StaticEnv_find_definition(t, name)>>

\* DynamicEnv::find: the first map, from the innermost, that holds the name
\* gives the value, zipped with the type the StaticEnv finds
RECURSIVE DynamicEnv_find(_, _, _)
DynamicEnv_find(vs, t, name) ==
    IF vs = <<>> THEN <<NoVal, NoTy>>
    ELSE IF name \in DOMAIN vs[Len(vs)]
         THEN IF StaticEnv_find_definition(t, name) = NoTy THEN <<NoVal, NoTy>>
              ELSE <<vs[Len(vs)][name], StaticEnv_find_definition(t, name)>>
    ELSE DynamicEnv_find(Pop(vs), t, name)

\* What find returns for name in the environment exercised.
Find(name) ==
    IF target = "Environment" THEN <<Environment_find(env, name), NoTy>>
    ELSE DynamicEnv_find(values, types, name)

FindAll == [n \in EnvNames |-> Find(n)]

Snapshot == [env |-> env, values |-> values, types |-> types]

Op(op, name, val, matched, seen) ==
    [op |-> op, name |-> name, val |-> val, ty |-> NoTy, matched |-> matched,
     before |-> Snapshot, seen |-> seen]

\* Environment::new() or DynamicEnv::new()
InitEnv ==
    /\ target \in {"Environment", "DynamicEnv"}
    /\ env = IF target = "Environment" THEN Environment_new ELSE <<>>
    /\ values = IF target = "DynamicEnv" THEN <<EmptyMap>> ELSE <<>>
    /\ types = IF target = "DynamicEnv" THEN StaticEnv_new ELSE <<>>
    /\ next_fun_id = 0
    /\ cache = {}
    /\ status = "ok"
    /\ last = NoOp
    /\ opened = <<>>
    /\ SortIdle /\ DeclIdle /\ ModIdle /\ ImpIdle /\ EvalIdle
    /\ DepIdle /\ TokIdle

EnvAdd ==
    /\ target = "Environment" /\ status = "ok"
    /\ \E name \in EnvNames, def \in Vals :
          LET r == Environment_add(env, name, def)
          IN  /\ env' = r.e
              /\ status' = IF r.ok THEN "ok" ELSE "panic"
              /\ last' = Op("add", name, def, FALSE, FindAll)
    /\ UNCHANGED <<target, values, types, next_fun_id, cache, opened>>
    /\ UNCHANGED <<sortVars, declVars, modVars, impVars, evalVars, depVars, tokVars>>

EnvEnterBlock ==
    /\ target = "Environment" /\ status = "ok"
    /\ Len(env) < MaxBlocks
    /\ env' = Environment_enter_block(env)
    /\ opened' = Append(opened, FindAll)
    /\ last' = Op("enter_block", "", 0, FALSE, FindAll)
    /\ UNCHANGED <<target, values, types, next_fun_id, cache, status>>
    /\ UNCHANGED <<sortVars, declVars, modVars, impVars, evalVars, depVars, tokVars>>

EnvExitBlock ==
    /\ target = "Environment" /\ status = "ok"
    /\ LET r == Environment_exit_block(env)
       IN  /\ env' = r.e
           /\ status' = IF r.ok THEN "ok" ELSE "panic"
    /\ opened' = IF opened = <<>> THEN opened ELSE Pop(opened)
    /\ last' = Op("exit_block", "", 0, opened # <<>>,
                  IF opened = <<>> THEN FindAll ELSE opened[Len(opened)])
    /\ UNCHANGED <<target, values, types, next_fun_id, cache>>
    /\ UNCHANGED <<sortVars, declVars, modVars, impVars, evalVars, depVars, tokVars>>

\* DynamicEnv::add
DynAdd ==
    /\ target = "DynamicEnv" /\ status = "ok"
    /\ \E name \in EnvNames, val \in Vals, ty \in Tys :
          /\ types' = StaticEnv_add_definition(types, name, ty)
          /\ IF values = <<>>
             THEN status' = "panic" /\ values' = values
             ELSE status' = "ok" /\ values' = InsertLast(values, name, val)
          /\ last' = [Op("add", name, val, FALSE, FindAll) EXCEPT !.ty = ty]
    /\ UNCHANGED <<target, env, next_fun_id, cache, opened>>
    /\ UNCHANGED <<sortVars, declVars, modVars, impVars, evalVars, depVars, tokVars>>

\* DynamicEnv::enter_block
DynEnterBlock ==
    /\ target = "DynamicEnv" /\ status = "ok"
    /\ Len(values) < MaxBlocks
    /\ types' = StaticEnv_enter_block(types)
    /\ values' = Append(values, EmptyMap)
    /\ opened' = Append(opened, FindAll)
    /\ last' = Op("enter_block", "", 0, FALSE, FindAll)
    /\ UNCHANGED <<target, env, next_fun_id, cache, status>>
    /\ UNCHANGED <<sortVars, declVars, modVars, impVars, evalVars, depVars, tokVars>>

\* DynamicEnv::exit_block: the StaticEnv first, then values.pop().expect
DynExitBlock ==
    /\ target = "DynamicEnv" /\ status = "ok"
    /\ LET r == StaticEnv_exit_block(types)
       IN  /\ types' = r.t
           /\ IF r.ok /\ values # <<>>
              THEN status' = "ok" /\ values' = Pop(values)
              ELSE status' = "panic" /\ values' = values
    /\ opened' = IF opened = <<>> THEN opened ELSE Pop(opened)
    /\ last' = Op("exit_block", "", 0, opened # <<>>,
                  IF opened = <<>> THEN FindAll ELSE opened[Len(opened)])
    /\ UNCHANGED <<target, env, next_fun_id, cache>>
    /\ UNCHANGED <<sortVars, declVars, modVars, impVars, evalVars, depVars, tokVars>>

NextEnv ==
    \/ EnvAdd
    \/ EnvEnterBlock
    \/ EnvExitBlock
    \/ DynAdd
    \/ DynEnterBlock
    \/ DynExitBlock

SpecEnv == InitEnv /\ [][NextEnv]_vars

\* The function call whose result is cached, and the value it evaluates to
FunCalls == {"f 1"}
FunResult(fun_call) == 1
\* The closures that take an id: one for each call
MaxFunIds == Cardinality(FunCalls)

\* DynamicEnv::next_fun_id; the ids handed out stop at MaxFunIds
DynNextFunId ==
    /\ target = "DynamicEnv" /\ status = "ok"
    /\ next_fun_id < MaxFunIds
    /\ next_fun_id' = next_fun_id + 1
    /\ UNCHANGED <<target, env, values, types, cache, status, last, opened>>
    /\ UNCHANGED <<sortVars, declVars, modVars, impVars, evalVars, depVars, tokVars>>

\* DynamicEnv::add_to_cache: the HashMap holds one value for a call
DynAddToCache ==
    /\ target = "DynamicEnv" /\ status = "ok"
    /\ \E fun_call \in FunCalls :
          cache' = {p \in cache : p[1] # fun_call} \cup {<<fun_call, FunResult(fun_call)>>}
    /\ UNCHANGED <<target, env, values, types, next_fun_id, status, last, opened>>
    /\ UNCHANGED <<sortVars, declVars, modVars, impVars, evalVars, depVars, tokVars>>

\* DynamicEnv::new()
InitDyn == InitEnv /\ target = "DynamicEnv"

NextDyn ==
    \/ DynAdd
    \/ DynEnterBlock
    \/ DynExitBlock
    \/ DynNextFunId
    \/ DynAddToCache

SpecDyn == InitDyn /\ [][NextDyn]_vars

\* ------------------------------------------------------------------------
\* analyze_module_declarations (analyzer/module_analyser.rs)

\* StaticEnv::add_definition, add_alias, add_adt on the caller's environment
env_add_definition(e, name, ty) == [e EXCEPT !.definitions = Insert(@, name, ty)]
env_add_alias(e, name, ty)      == [e EXCEPT !.aliases = Insert(@, name, ty)]
env_add_adt(e, name, adt)       == [e EXCEPT !.adts = Insert(@, name, adt)]

\* The names of other statements of ss that a statement references.
local_deps(ss, stm) ==
    {d \in Range(stm.uses) : d \in local_names(ss) /\ d # get_stm_name(stm)}

name_edges(ss) ==
    UNION {{<<get_stm_name(ss[i]), d>> : d \in local_deps(ss, ss[i])} : i \in 1..Len(ss)}

cycle_names(ss) ==
    LET reach == Closure(name_edges(ss))
    IN  {n \in local_names(ss) : <<n, n>> \in reach}

\* The statements of ss in dependency order: round after round, those whose
\* dependencies are all emitted, in source order.
RECURSIVE sorted_rounds(_, _, _)
sorted_rounds(ss, left, emitted) ==
    LET ready == {i \in left : local_deps(ss, ss[i]) \subseteq emitted}
        pick  == SelectSeq([i \in 1..Len(ss) |-> i], LAMBDA i : i \in ready)
    IN  IF left = {} \/ ready = {} THEN <<>>
        ELSE [k \in 1..Len(pick) |-> ss[pick[k]]]
             \o sorted_rounds(ss, left \ ready,
                              emitted \cup {get_stm_name(ss[i]) : i \in ready})

\* sort_statements: the sorted statements, or the names on a cycle
sort_statements(ss) ==
    LET cycle == cycle_names(ss)
    IN  IF cycle # {}
    THEN [ok |-> FALSE, sorted |-> <<>>, cycle |-> SelectSeq(NameSeq, LAMBDA n : n \in cycle)]
    ELSE [ok |-> TRUE, sorted |-> sorted_rounds(ss, 1..Len(ss), {}), cycle |-> <<>>]

\* analyze_function: the type of the definition, when the environment
\* defines whatever the definition references
analyze_function(e, def) ==
    LET missing == SelectSeq(def.uses, LAMBDA u : u # def.name /\ u \notin DOMAIN e.definitions)
    IN  IF missing = <<>> THEN Ok(<<DeclDef(def.name, Tag("Int", <<>>))>>)
        ELSE Err("MissingDefinition", <<Head(missing)>>)

\* The Adt statements examined declare one variant, whose arguments are the
\* types the statement names.
VariantsOf(stm) ==
    <<[name |-> CtorOf(stm.name), types |-> [i \in 1..Len(stm.uses) |-> Tag(stm.uses[i], <<>>)]]>>

\* StaticEnv::find_definition on the caller's environment
env_find_definition(e, name) ==
    IF name \in DOMAIN e.definitions THEN <<e.definitions[name]>> ELSE <<>>

\* analyze_statement, for Def, Adt and Infix
analyze_statement(e, stm) ==
    CASE stm.kind = "Def" -> analyze_function(e, stm)
      [] stm.kind = "Adt" -> analyze_adt(stm.name, <<>>, VariantsOf(stm))
      [] OTHER ->
           IF env_find_definition(e, stm.name) = <<>>
           THEN LET func == env_find_definition(e, stm.def)
                IN  IF func # <<>> THEN Ok(<<DeclDef(stm.name, func[1])>>) ELSE Ok(<<>>)
           ELSE Ok(<<>>)

\* A slip: the Def declarations are collected but not entered.
RECURSIVE add_declarations_types_only(_, _)
add_declarations_types_only(e, decls) ==
    IF decls = <<>> THEN e
    ELSE LET decl == Head(decls)
             e2   == CASE decl.d = "Def"   -> e
                       [] decl.d = "Alias" -> env_add_alias(e, decl.name, decl.ty)
                       [] OTHER            -> env_add_adt(e, decl.name, decl.adt)
         IN  add_declarations_types_only(e2, Tail(decls))

\* lines 77-90: every declaration is entered into the environment
RECURSIVE add_declarations(_, _)
add_declarations(e, decls) ==
    IF decls = <<>> THEN e
    ELSE LET decl == Head(decls)
             e2   == CASE decl.d = "Def"   -> env_add_definition(e, decl.name, decl.ty)
                       [] decl.d = "Alias" -> env_add_alias(e, decl.name, decl.ty)
                       [] OTHER            -> env_add_adt(e, decl.name, decl.adt)
         IN  add_declarations(e2, Tail(decls))

ResOk(decls)       == [NoResult EXCEPT !.kind = "Ok", !.decls = decls]
ResErr(err, names) == [NoResult EXCEPT !.kind = "Err", !.err = err, !.names = names]
ResList(errors)    == [NoResult EXCEPT !.kind = "Err", !.err = "List", !.errors = errors]
ResPanic           == [NoResult EXCEPT !.kind = "Panic"]

InitModule ==
    /\ \E n \in 1..MaxStms : \E du \in [1..n -> DefUses] :
          \/ m_stms = DefList(n, du, FALSE)
          \/ \E a \in 1..n : \E au \in DefUses :
                /\ du[a] = <<>>
                /\ m_stms = WithAdt(DefList(n, du, FALSE), a, au)
          \/ \E i \in 1..n : \E def \in Names :
                /\ du[i] = <<>>
                /\ m_stms = WithInfix(DefList(n, du, FALSE), i, def)
    /\ m_env = EmptyEnv
    /\ m_result = NoResult
    /\ m_pc = "sort"
    /\ m_sorted = <<>>
    /\ m_declarations = <<>>
    /\ m_errors = <<>>
    /\ SortIdle /\ DeclIdle /\ EnvIdle /\ ImpIdle /\ EvalIdle
    /\ DepIdle /\ TokIdle

\* A slip: the error of the sorter is dropped and the statements are
\* analyzed as they stand.
ModSortStatementsUnchecked ==
    /\ m_pc = "sort"
    /\ LET r == sort_statements(m_stms)
       IN  /\ m_sorted' = IF r.ok THEN r.sorted ELSE m_stms
           /\ m_pc' = "loop"
           /\ m_result' = m_result
    /\ UNCHANGED <<m_stms, m_env, m_declarations, m_errors>>
    /\ UNCHANGED <<sortVars, declVars, envVars, impVars, evalVars, depVars, tokVars>>

\* lines 66-69: sort_statements(statements).map_err(..)?
ModSortStatements ==
    /\ m_pc = "sort"
    /\ LET r == sort_statements(m_stms)
       IN  IF r.ok
           THEN m_sorted' = r.sorted /\ m_pc' = "loop" /\ m_result' = m_result
           ELSE /\ m_result' = ResErr("CyclicStatementDependency", r.cycle)
                /\ m_pc' = "done"
                /\ m_sorted' = m_sorted
    /\ UNCHANGED <<m_stms, m_env, m_declarations, m_errors>>
    /\ UNCHANGED <<sortVars, declVars, envVars, impVars, evalVars, depVars, tokVars>>

\* lines 74-98: one turn of the loop over the sorted statements
ModAnalyzeStatement ==
    /\ m_pc = "loop" /\ m_sorted # <<>>
    /\ LET r == analyze_statement(m_env, Head(m_sorted))
       IN  CASE r.kind = "Ok" ->
                  /\ m_declarations' = m_declarations \o r.decls
                  /\ m_env' = add_declarations(m_env, r.decls)
                  /\ UNCHANGED <<m_errors, m_result, m_pc>>
             [] r.kind = "Err" ->
                  /\ m_errors' = Append(m_errors, r)
                  /\ UNCHANGED <<m_declarations, m_env, m_result, m_pc>>
             [] OTHER ->
                  /\ m_result' = ResPanic
                  /\ m_pc' = "done"
                  /\ UNCHANGED <<m_declarations, m_env, m_errors>>
    /\ m_sorted' = Tail(m_sorted)
    /\ UNCHANGED m_stms
    /\ UNCHANGED <<sortVars, declVars, envVars, impVars, evalVars, depVars, tokVars>>

\* lines 100-104
ModReturn ==
    /\ m_pc = "loop" /\ m_sorted = <<>>
    /\ m_result' = IF m_errors = <<>> THEN ResOk(m_declarations) ELSE ResList(m_errors)
    /\ m_pc' = "done"
    /\ UNCHANGED <<m_stms, m_env, m_sorted, m_declarations, m_errors>>
    /\ UNCHANGED <<sortVars, declVars, envVars, impVars, evalVars, depVars, tokVars>>

NextModule ==
    \/ ModSortStatements
    \/ ModAnalyzeStatement
    \/ ModReturn

SpecModule == InitModule /\ [][NextModule]_vars

\* ------------------------------------------------------------------------
\* The import linker: analyze_module_imports of analyzer/module_analyser.rs
\* and of analyzer/module_helper.rs, and get_exposed_decls

\* ast::Exposing, AdtExposing (all: AdtExposing::All, else Variants(variants))
ExpDefinition(n)     == [e |-> "Definition", name |-> n, all |-> FALSE, variants |-> <<>>]
ExpBinaryOperator(n) == [e |-> "BinaryOperator", name |-> n, all |-> FALSE, variants |-> <<>>]
ExpType(n)           == [e |-> "Type", name |-> n, all |-> FALSE, variants |-> <<>>]
ExpAdt(n, all, vs)   == [e |-> "Adt", name |-> n, all |-> all, variants |-> vs]

\* Option<ModuleExposing>
ExposingNone       == [m |-> "None", list |-> <<>>]
ExposingAll        == [m |-> "All", list |-> <<>>]
ExposingJust(list) == [m |-> "Just", list |-> list]

\* ast::Import; alias is <<>> for None and <<a>> for Some(a). A name made
\* by joining with "." is kept as the sequence of its segments.
Import(path, alias, exposing) == [path |-> path, alias |-> alias, exposing |-> exposing]

LoadedModule(path, declarations) == [path |-> path, declarations |-> declarations]

\* The declarations a target module may hold, in this order
IntTy == Tag("Int", <<>>)
DeclPool ==
    <<DeclAdt("T", [name |-> "T", types |-> <<>>,
                    variants |-> <<[name |-> "A", types |-> <<>>],
                                   [name |-> "MkT", types |-> <<IntTy, IntTy>>]>>]),
      DeclDef("A", Tag("T", <<>>)),
      DeclDef("MkT", Fun(IntTy, Fun(IntTy, Tag("T", <<>>)))),
      DeclDef("f", Fun(IntTy, IntTy)),
      DeclAlias("R", IntTy)>>

DeclLists ==
    {SelectSeq([i \in 1..Len(DeclPool) |-> IF i \in S THEN <<DeclPool[i]>> ELSE <<>>],
               LAMBDA x : x # <<>>) : S \in SUBSET (1..Len(DeclPool))}

Unwrap(ss) == [i \in 1..Len(ss) |-> ss[i][1]]

ExposingItems ==
    {ExpDefinition("f"), ExpBinaryOperator("f"), ExpType("R"), ExpType("T"),
     ExpAdt("T", TRUE, <<>>), ExpAdt("T", FALSE, <<"A">>)}

ExposingLists == UNION {[1..n -> ExposingItems] : n \in 0..MaxExposed}

ModulePath == <<"A", "B">>
ImportPaths == {ModulePath, <<"M">>}
Aliases == {<<>>, <<"N">>}

\* A slip: only the result of the outermost function type is looked at.
get_fun_return_once(ty) == IF ty.t = "Fun" THEN ty.args[2] ELSE ty

\* get_fun_return
RECURSIVE get_fun_return(_)
get_fun_return(ty) == IF ty.t = "Fun" THEN get_fun_return(ty.args[2]) ELSE ty

ExposedOk(decls)  == [ok |-> TRUE, decls |-> decls, name |-> ""]
ExposedErr(name)  == [ok |-> FALSE, decls |-> <<>>, name |-> name]

\* One turn of the loop of get_exposed_decls: what the item exp adds
exposed_by(all_decls, exp) ==
    CASE exp.e = "Adt" ->
           LET defs == SelectSeq(all_decls, LAMBDA it :
                          /\ it.d = "Def"
                          /\ (exp.all \/ it.name \in Range(exp.variants))
                          /\ get_fun_return(it.ty).t = "Tag"
                          /\ get_fun_return(it.ty).name = exp.name)
               decl == SelectSeq(all_decls, LAMBDA d : d.d = "Adt" /\ d.name = exp.name)
           IN  IF decl = <<>> THEN ExposedErr(exp.name)
               ELSE ExposedOk(Append(defs, Head(decl)))
      [] exp.e = "Type" ->
           LET decl == SelectSeq(all_decls, LAMBDA d : d.d \in {"Alias", "Adt"} /\ d.name = exp.name)
           IN  IF decl = <<>> THEN ExposedErr(exp.name) ELSE ExposedOk(<<Head(decl)>>)
      [] exp.e = "BinaryOperator" ->
           LET decl == SelectSeq(all_decls, LAMBDA d : d.d = "Def" /\ d.name = exp.name)
           IN  IF decl = <<>> THEN ExposedOk(<<>>) ELSE ExposedOk(<<Head(decl)>>)
      [] OTHER ->
           LET decl == SelectSeq(all_decls, LAMBDA d : d.d = "Def" /\ d.name = exp.name)
           IN  IF decl = <<>> THEN ExposedErr(exp.name) ELSE ExposedOk(<<Head(decl)>>)

\* get_exposed_decls: the first item that is missing ends the loop
RECURSIVE get_exposed_decls(_, _)
get_exposed_decls(all_decls, exposed) ==
    IF exposed = <<>> THEN ExposedOk(<<>>)
    ELSE LET r == exposed_by(all_decls, Head(exposed))
         IN  IF ~r.ok THEN r
             ELSE LET rest == get_exposed_decls(all_decls, Tail(exposed))
                  IN  IF rest.ok THEN ExposedOk(r.decls \o rest.decls) ELSE rest

ImportOk             == [NoImportResult EXCEPT !.kind = "Ok"]
ImportErr(err, name) == [NoImportResult EXCEPT !.kind = "Err", !.err = err, !.name = name]
ImportPanic          == [NoImportResult EXCEPT !.kind = "Panic"]

\* modules.get(&name)
modules_get(mods, path) == SelectSeq(mods, LAMBDA m : m.path = path)

\* module_analyser.rs lines 44-50: the declaration under its own name
add_unqualified(e, decl) ==
    CASE decl.d = "Def"   -> env_add_definition(e, <<decl.name>>, decl.ty)
      [] decl.d = "Alias" -> env_add_alias(e, <<decl.name>>, decl.ty)
      [] OTHER            -> env_add_adt(e, <<decl.name>>, decl.adt)

RECURSIVE add_all_unqualified(_, _)
add_all_unqualified(e, decls) ==
    IF decls = <<>> THEN e
    ELSE add_all_unqualified(add_unqualified(e, Head(decls)), Tail(decls))

\* module_analyser.rs lines 28-59: one turn of the loop over the imports
import_of_module_analyser(e, mods, import) ==
    LET module == modules_get(mods, import.path)
    IN  IF module = <<>> THEN [ret |-> ImportErr("MissingImport", import.path), env |-> e]
        ELSE IF import.alias = <<>> /\ import.exposing.m # "None"
        THEN LET r == IF import.exposing.m = "Just"
                      THEN get_exposed_decls(module[1].declarations, import.exposing.list)
                      ELSE ExposedOk(module[1].declarations)
             IN  IF r.ok THEN [ret |-> ImportOk, env |-> add_all_unqualified(e, r.decls)]
                 ELSE [ret |-> ImportErr("MissingExposing", <<r.name>>), env |-> e]
        ELSE [ret |-> ImportPanic, env |-> e]

\* A slip: a name that is bound already is kept, and the declaration is
\* entered under the name of its module instead.
import_declaration_beside(e, decl, module_name, alias) ==
    LET aliased_name == IF alias = <<>> THEN <<decl.name>> ELSE Append(alias, decl.name)
        free_name    == IF aliased_name \in DOMAIN e.definitions
                        THEN Append(module_name, decl.name) ELSE aliased_name
    IN  CASE decl.d = "Def" ->
               env_add_definition(env_add_definition(e, free_name, decl.ty),
                                  <<decl.name>>, decl.ty)
          [] decl.d = "Alias" -> env_add_alias(e, aliased_name, decl.ty)
          [] OTHER            -> env_add_adt(e, aliased_name, decl.adt)

\* Analyzer::import_declaration, on the environment
import_declaration(e, decl, module_name, alias) ==
    LET aliased_name == IF alias = <<>> THEN <<decl.name>> ELSE Append(alias, decl.name)
    IN  CASE decl.d = "Def" ->
               env_add_definition(env_add_definition(e, aliased_name, decl.ty),
                                  <<decl.name>>, decl.ty)
          [] decl.d = "Alias" -> env_add_alias(e, aliased_name, decl.ty)
          [] OTHER            -> env_add_adt(e, aliased_name, decl.adt)

\* Analyzer::import_qualified, and the loop of import_exposed (alias "")
RECURSIVE import_qualified(_, _, _, _)
import_qualified(e, decls, module_name, alias) ==
    IF decls = <<>> THEN e
    ELSE import_qualified(import_declaration(e, Head(decls), module_name, alias),
                          Tail(decls), module_name, alias)

\* Analyzer::import_exposed: the selection is computed, for its error, and
\* then every declaration of the module is imported
import_exposed(e, module_name, module, exposing) ==
    LET r == IF exposing.m = "Just"
             THEN get_exposed_decls(module.declarations, exposing.list)
             ELSE ExposedOk(module.declarations)
    IN  IF r.ok
        THEN [ret |-> ImportOk, env |-> import_qualified(e, module.declarations, module_name, <<>>)]
        ELSE [ret |-> ImportErr("MissingExposing", <<r.name>>), env |-> e]

\* Analyzer::analyze_import
analyze_import(e, mods, import) ==
    LET module_name == import.path
        module      == modules_get(mods, module_name)
        alias       == IF import.alias # <<>> THEN import.alias ELSE module_name
    IN  IF module = <<>> THEN [ret |-> ImportErr("MissingModule", module_name), env |-> e]
        ELSE LET e1 == import_qualified(e, module[1].declarations, module_name, alias)
             IN  IF import.exposing.m # "None"
                 THEN import_exposed(e1, module_name, module[1], import.exposing)
                 ELSE [ret |-> ImportOk, env |-> e1]

InitImport ==
    /\ impl \in {"module_analyser", "module_helper"}
    /\ \E declarations \in DeclLists : modules = <<LoadedModule(ModulePath, Unwrap(declarations))>>
    /\ \E path \in ImportPaths, alias \in Aliases, n \in 1..MaxImports :
       \E exposing \in {ExposingNone, ExposingAll} \cup {ExposingJust(l) : l \in ExposingLists} :
          imports = [k \in 1..n |-> Import(path, alias, exposing)]
    /\ i_pos = 1
    /\ i_env = EmptyEnv
    /\ i_ret = NoImportResult
    /\ i_after = <<>>
    /\ i_pc = "imports"
    /\ SortIdle /\ DeclIdle /\ EnvIdle /\ ModIdle /\ EvalIdle
    /\ DepIdle /\ TokIdle

\* The end of a turn of the loop: on to the next import, or out with the
\* error (? operator) or the panic
ImportStep(r) ==
    /\ i_env' = r.env
    /\ IF r.ret.kind = "Ok"
       THEN /\ i_after' = Append(i_after, r.env)
            /\ i_pos' = i_pos + 1
            /\ UNCHANGED <<i_ret, i_pc>>
       ELSE /\ i_ret' = r.ret
            /\ i_pc' = "done"
            /\ UNCHANGED <<i_after, i_pos>>
    /\ UNCHANGED <<impl, modules, imports>>
    /\ UNCHANGED <<sortVars, declVars, envVars, modVars, evalVars, depVars, tokVars>>

\* module_analyser.rs, analyze_module_imports: for import in imports
ImportOfModuleAnalyser ==
    /\ impl = "module_analyser" /\ i_pc = "imports" /\ i_pos <= Len(imports)
    /\ ImportStep(import_of_module_analyser(i_env, modules, imports[i_pos]))

\* module_helper.rs, Analyzer::analyze_module_imports: for import in imports
ImportOfModuleHelper ==
    /\ impl = "module_helper" /\ i_pc = "imports" /\ i_pos <= Len(imports)
    /\ ImportStep(analyze_import(i_env, modules, imports[i_pos]))

\* Ok(()) / Ok(module_imports)
ImportReturn ==
    /\ impl \in {"module_analyser", "module_helper"}
    /\ i_pc = "imports" /\ i_pos > Len(imports)
    /\ i_ret' = ImportOk
    /\ i_pc' = "done"
    /\ UNCHANGED <<impl, modules, imports, i_pos, i_env, i_after>>
    /\ UNCHANGED <<sortVars, declVars, envVars, modVars, evalVars, depVars, tokVars>>

NextImport ==
    \/ ImportOfModuleAnalyser
    \/ ImportOfModuleHelper
    \/ ImportReturn

SpecImport == InitImport /\ [][NextImport]_vars

\* get_exposed_decls called on its own
InitExposed ==
    /\ impl = "get_exposed_decls"
    /\ \E declarations \in DeclLists : modules = <<LoadedModule(ModulePath, Unwrap(declarations))>>
    /\ \E exposed \in ExposingLists : imports = <<Import(ModulePath, <<>>, ExposingJust(exposed))>>
    /\ i_pos = 1
    /\ i_env = EmptyEnv
    /\ i_ret = NoImportResult
    /\ i_after = <<>>
    /\ i_pc = "call"
    /\ SortIdle /\ DeclIdle /\ EnvIdle /\ ModIdle /\ EvalIdle
    /\ DepIdle /\ TokIdle

CallGetExposedDecls ==
    /\ impl = "get_exposed_decls" /\ i_pc = "call"
    /\ LET r == get_exposed_decls(modules[1].declarations, imports[1].exposing.list)
       IN  i_ret' = IF r.ok THEN [ImportOk EXCEPT !.decls = r.decls]
                    ELSE ImportErr("MissingExposing", <<r.name>>)
    /\ i_pc' = "done"
    /\ UNCHANGED <<impl, modules, imports, i_pos, i_env, i_after>>
    /\ UNCHANGED <<sortVars, declVars, envVars, modVars, evalVars, depVars, tokVars>>

NextExposed ==
    \/ CallGetExposedDecls

SpecExposed == InitExposed /\ [][NextExposed]_vars

\* ------------------------------------------------------------------------
\* eval_statement (interpreter/statement_eval.rs)

\* types::Statement, the variants that eval_statement evaluates without
\* checking a function
StmAlias(name, vs, ty)      == [kind |-> "Alias", name |-> name, vars |-> vs, variants |-> <<>>, ty |-> ty]
StmAdt(name, vs, variants)  == [kind |-> "Adt", name |-> name, vars |-> vs, variants |-> variants, ty |-> Unit]
StmPort(name, ty)           == [kind |-> "Port", name |-> name, vars |-> <<>>, variants |-> <<>>, ty |-> ty]

\* types::Value
ValueAdt(var_name, name) ==
    [v |-> "Adt", name |-> var_name, adt |-> name, args |-> <<>>, arg_count |-> 0,
     builtin |-> 0, ty |-> Unit]
ValueFun(args, arg_count, id, ty) ==
    [v |-> "Fun", name |-> "", adt |-> "", args |-> args, arg_count |-> arg_count,
     builtin |-> id, ty |-> ty]

\* Result<Option<Value>, RuntimeError>
EvalOkNone == "Ok(None)"
EvalPanic  == "Panic"

\* StaticEnv::add of the DynamicEnv's types: the name is bound to the type
\* in the innermost block
StaticEnv_add(t, name, ty) == InsertLast(t, name, ty)

\* DynamicEnv::add
DynamicEnv_add(e, name, val, ty) ==
    [e EXCEPT !.types = StaticEnv_add_definition(e.types, name, ty),
              !.values = InsertLast(e.values, name, val)]

\* lines 33-48: the value a variant is bound to
variant_value(var_name, params, name, var_ty) ==
    IF params = <<>> THEN ValueAdt(var_name, name)
    ELSE ValueFun(<<var_name, name>>, Len(params) + 2, 7,
                  Fun(Tag("String", <<>>), Fun(Tag("String", <<>>), var_ty)))

\* lines 30-52: the loop over the variants from the i-th on; it ends at the
\* first variant for which build_fun_type panics.
RECURSIVE eval_variants(_, _, _, _, _)
eval_variants(e, name, ty, variants, i) ==
    IF i > Len(variants) THEN e
    ELSE LET var_name == variants[i].name
             params   == variants[i].types
             var_ty   == build_fun_type(create_vec_inv(params, ty))
         IN  IF ~var_ty.ok THEN [e EXCEPT !.ok = FALSE]
             ELSE eval_variants(
                      DynamicEnv_add(e, var_name,
                                     variant_value(var_name, params, name, var_ty.ty),
                                     var_ty.ty),
                      name, ty, variants, i + 1)

\* eval_statement, the arms Alias, Adt and Port
eval_statement(e, stm) ==
    CASE stm.kind = "Alias" ->
            [e EXCEPT !.types = StaticEnv_add(e.types, stm.name, stm.ty)]
      [] stm.kind = "Adt" ->
            LET vs == [i \in 1..Len(stm.vars) |-> Var(stm.vars[i])]
                ty == Tag(stm.name, vs)
            IN  eval_variants([e EXCEPT !.types = StaticEnv_add(e.types, stm.name, ty)],
                              stm.name, ty, stm.variants, 1)
      [] stm.kind = "Port" -> e

\* The statements evaluated, in DynamicEnv::new()
InitEval ==
    /\ \/ \E vs \in AdtVars : \E variants \in Variants : e_stm = StmAdt("T", vs, variants)
       \/ \E ty \in LeafTypes : e_stm \in {StmAlias("R", <<>>, ty), StmPort("p", ty)}
    /\ e_values = <<EmptyMap>>
    /\ e_types = StaticEnv_new
    /\ e_ret = NoEvalResult
    /\ e_pc = "call"
    /\ SortIdle /\ DeclIdle /\ EnvIdle /\ ModIdle /\ ImpIdle
    /\ DepIdle /\ TokIdle

EvalStatement ==
    /\ e_pc = "call"
    /\ LET r == eval_statement([ok |-> TRUE, values |-> e_values, types |-> e_types], e_stm)
       IN  /\ e_values' = r.values
           /\ e_types' = r.types
           /\ e_ret' = IF r.ok THEN EvalOkNone ELSE EvalPanic
           /\ e_pc' = IF r.ok THEN "done" ELSE "panic"
    /\ UNCHANGED e_stm
    /\ UNCHANGED <<sortVars, declVars, envVars, modVars, impVars, depVars, tokVars>>

NextEval ==
    \/ EvalStatement

SpecEval == InitEval /\ [][NextEval]_vars

\* ------------------------------------------------------------------------
\* get_stm_dependencies of a Def and get_expr_dependencies
\* (analyzer/dependency_sorter.rs)

\* ast::Expr, as far as the walk reads it. subs: the expressions below the
\* node, in the order the visitor takes them.
ERef(n)              == [k |-> "Ref", name |-> n, ops |-> <<>>, pats |-> <<>>, decls |-> <<>>, subs |-> <<>>]
EQualifiedRef(p, n)  == [k |-> "QualifiedRef", name |-> n, ops |-> p, pats |-> <<>>, decls |-> <<>>, subs |-> <<>>]
ERecordUpdate(n)     == [k |-> "RecordUpdate", name |-> n, ops |-> <<>>, pats |-> <<>>, decls |-> <<>>, subs |-> <<>>]
EOpChain(terms, ops) == [k |-> "OpChain", name |-> "", ops |-> ops, pats |-> <<>>, decls |-> <<>>, subs |-> terms]
ELiteral             == [k |-> "Literal", name |-> "", ops |-> <<>>, pats |-> <<>>, decls |-> <<>>, subs |-> <<>>]
EApplication(a, b)   == [k |-> "Application", name |-> "", ops |-> <<>>, pats |-> <<>>, decls |-> <<>>, subs |-> <<a, b>>]
\* Case with one arm: the pattern pat and the expression b
ECase(a, pat, b)     == [k |-> "Case", name |-> "", ops |-> <<>>, pats |-> <<pat>>, decls |-> <<>>, subs |-> <<a, b>>]
ELambda(pats, body)  == [k |-> "Lambda", name |-> "", ops |-> <<>>, pats |-> pats, decls |-> <<>>, subs |-> <<body>>]
ELet(decls, body)    ==
    [k |-> "Let", name |-> "", ops |-> <<>>, pats |-> <<>>, decls |-> decls,
     subs |-> [i \in 1..(Len(decls) + 1) |-> IF i <= Len(decls) THEN decls[i].expr ELSE body]]

\* LetDeclaration::Def(def) and LetDeclaration::Pattern(pattern, expr); the
\* patterns are variable patterns, each given by its name
LetDef(name, patterns, expr) == [d |-> "Def", name |-> name, patterns |-> patterns, expr |-> expr]
LetPattern(pattern, expr)    == [d |-> "Pattern", name |-> "", patterns |-> <<pattern>>, expr |-> expr]

\* The Defs examined
VarNames  == {"x", "y"}
Atoms     == {ERef(n) : n \in VarNames} \cup {ELiteral}
OtherRefs == {ERecordUpdate("x"), EQualifiedRef(<<"M">>, "x"),
              EOpChain(<<ELiteral, ELiteral>>, <<"x">>)}
PatternLists == {<<>>} \cup {<<n>> : n \in VarNames}
Binders ==
    {ELambda(<<p>>, a) : p \in VarNames, a \in Atoms \cup OtherRefs}
    \cup {ELet(<<LetDef(q[1], q[2], q[3])>>, a) :
              q \in VarNames \X PatternLists \X Atoms, a \in Atoms}
    \cup {ELet(<<LetPattern(p, q[1])>>, q[2]) : p \in VarNames, q \in Atoms \X Atoms}
Exprs ==
    Atoms \cup OtherRefs \cup Binders
    \cup {ECase(q[1], p, q[2]) : p \in VarNames, q \in Atoms \X Atoms}
    \cup {EApplication(b, a) : b \in Binders, a \in Atoms}
    \cup {ELambda(<<p>>, b) : p \in VarNames, b \in Binders}

\* util::qualified_name: the path and the name, joined by dots
RECURSIVE qualified_name(_, _)
qualified_name(path, name) ==
    IF path = <<>> THEN name ELSE Head(path) \o "." \o qualified_name(Tail(path), name)

\* add_patterns: every variable the patterns bind becomes a definition of
\* the innermost block, of type Unit
RECURSIVE add_patterns(_, _)
add_patterns(e, patterns) ==
    IF patterns = <<>> THEN e
    ELSE add_patterns(StaticEnv_add_definition(e, Head(patterns), "Unit"), Tail(patterns))

\* lines 128-131, 135-137, 141-143, 148-150: the name goes into local_refs
\* when the environment does not define it
record_ref(st, name) ==
    IF StaticEnv_find_definition(st.env, name) = NoTy
    THEN [st EXCEPT !.refs = @ \cup {name}]
    ELSE st

RECURSIVE record_refs(_, _)
record_refs(st, names) ==
    IF names = <<>> THEN st ELSE record_refs(record_ref(st, Head(names)), Tail(names))

\* lines 164-173: the patterns of every declaration of the Let go into the
\* block just entered
RECURSIVE add_let_patterns(_, _)
add_let_patterns(e, decls) ==
    IF decls = <<>> THEN e
    ELSE add_let_patterns(add_patterns(e, Head(decls).patterns), Tail(decls))

\* lines 126-177: the callback run when the visitor comes to a node
enter_expr(st, expr) ==
    CASE expr.k = "RecordUpdate" -> record_ref(st, expr.name)
      [] expr.k = "QualifiedRef" -> record_ref(st, qualified_name(expr.ops, expr.name))
      [] expr.k = "OpChain"      -> record_refs(st, expr.ops)
      [] expr.k = "Ref"          -> record_ref(st, expr.name)
      [] expr.k = "Lambda"       ->
            [st EXCEPT !.env = add_patterns(StaticEnv_enter_block(st.env), expr.pats)]
      [] expr.k = "Let"          ->
            [st EXCEPT !.env = add_let_patterns(StaticEnv_enter_block(st.env), expr.decls)]
      [] OTHER -> st

\* lines 178-188: the callback run when the visitor leaves a node
exit_expr(st, expr) ==
    IF expr.k \in {"Lambda", "Let"}
    THEN LET r == StaticEnv_exit_block(st.env)
         IN  [st EXCEPT !.env = r.t, !.ok = st.ok /\ r.ok]
    ELSE st

\* expr_visitor_block: the enter callback on the node, then the expressions
\* below it in order, then, for a Lambda or a Let, the exit callback
RECURSIVE expr_visitor_block(_, _)
expr_visitor_block(st, expr) ==
    LET RECURSIVE below(_, _)
        below(s, es) == IF es = <<>> THEN s
                        ELSE below(expr_visitor_block(s, Head(es)), Tail(es))
        inner == below(enter_expr(st, expr), expr.subs)
    IN  IF expr.k \in {"Lambda", "Let"} THEN exit_expr(inner, expr) ELSE inner

\* get_expr_dependencies: the walk, from no reference recorded
get_expr_dependencies(e, expr) ==
    expr_visitor_block([env |-> e, refs |-> {}, ok |-> TRUE], expr)

\* get_stm_dependencies, lines 83-88: a fresh environment, the patterns of
\* the function, the walk of its expression
get_def_dependencies(def) ==
    get_expr_dependencies(add_patterns(StaticEnv_new, def.patterns), def.expr)

InitDeps ==
    /\ \E patterns \in PatternLists : \E expr \in Exprs :
          d_def = [patterns |-> patterns, expr |-> expr]
    /\ d_env = <<>>
    /\ d_deps = <<>>
    /\ d_pc = "call"
    /\ SortIdle /\ DeclIdle /\ EnvIdle /\ ModIdle /\ ImpIdle /\ EvalIdle /\ TokIdle

\* line 189: the references leave the HashSet in any order
GetStmDependencies ==
    /\ d_pc = "call"
    /\ LET r == get_def_dependencies(d_def)
       IN  /\ d_env' = r.env
           /\ IF r.ok
              THEN /\ \E order \in Orders(r.refs) : d_deps' = order
                   /\ d_pc' = "done"
              ELSE d_deps' = <<>> /\ d_pc' = "panic"
    /\ UNCHANGED d_def
    /\ UNCHANGED <<sortVars, declVars, envVars, modVars, impVars, evalVars, tokVars>>

NextDeps ==
    \/ GetStmDependencies

SpecDeps == InitDeps /\ [][NextDeps]_vars

\* ------------------------------------------------------------------------
\* read_token_forced (tokenizer/token_parser.rs). The input is a sequence of
\* characters; a String is the sequence of its characters.

\* tokenizer::Token
Tk(token)           == [token |-> token, text |-> <<>>]
TkText(token, text) == [token |-> token, text |-> text]

\* IResult: Ok((rest, value)) or Err(Error)
ParseOk(rest, value) == [ok |-> TRUE, rest |-> rest, value |-> value]
ParseError           == [ok |-> FALSE, rest |-> <<>>, value |-> <<>>]

\* line 7, line 15 and line 17
LowerChars == {"a", "b", "c", "d", "e", "f", "g", "h", "i", "j", "k", "l", "m",
               "n", "o", "p", "q", "r", "s", "t", "u", "v", "w", "x", "y", "z"}
BinopChars == {":", "~", "!", "@", "#", "$", "%", "^", "&", "*", "-", "+", "=",
               "<", ">", "/", "?", "\\", ".", "_"}
UpperChars == {"A", "B", "C", "D", "E", "F", "G", "H", "I", "J", "K", "L", "M",
               "N", "O", "P", "Q", "R", "S", "T", "U", "V", "W", "X", "Y", "Z"}
NumberChars == {"0", "1", "2", "3", "4", "5", "6", "7", "8", "9"}
IdChars    == LowerChars \cup UpperChars \cup NumberChars \cup {"_", "'"}

\* The inputs examined: up to MaxInput of these characters and then a space,
\* as in tests::check_binop
InputChars == {"=", ":", ".", "<", "-", ">", "\\", "_", "+", "a", "s", ",", "|", "("}
Inputs == UNION {[1..n -> InputChars] : n \in 0..MaxInput}

\* many0!(one_of!(chars)): the longest prefix of the input made of chars
RECURSIVE many0(_, _)
many0(input, chars) ==
    IF input # <<>> /\ Head(input) \in chars
    THEN LET r == many0(Tail(input), chars)
         IN  ParseOk(r.rest, <<Head(input)>> \o r.value)
    ELSE ParseOk(input, <<>>)

\* many1!: the same, an error when the prefix is empty
many1(input, chars) ==
    LET r == many0(input, chars)
    IN  IF r.value = <<>> THEN ParseError ELSE r

\* char!(c) mapped to a token
char_token(input, c, token) ==
    IF input # <<>> /\ Head(input) = c THEN ParseOk(Tail(input), Tk(token)) ELSE ParseError

\* A slip: one operator character is read, not the run.
basic_binop_string_one(input) ==
    IF input # <<>> /\ Head(input) \in BinopChars
    THEN ParseOk(Tail(input), <<Head(input)>>)
    ELSE ParseError

\* lines 102-105
basic_binop_string(input) == many1(input, BinopChars)

\* lines 173-185
from_binop(id) ==
    CASE id = <<"_">>      -> Tk("Underscore")
      [] id = <<":">>      -> Tk("Colon")
      [] id = <<".">>      -> Tk("Dot")
      [] id = <<".", ".">> -> Tk("DoubleDot")
      [] id = <<"=">>      -> Tk("Equals")
      [] id = <<"<", "-">> -> Tk("LeftArrow")
      [] id = <<"-", ">">> -> Tk("RightArrow")
      [] id = <<"\\">>     -> Tk("BackSlash")
      [] OTHER             -> TkText("BinaryOperator", id)

\* lines 146-150
read_binop(input) ==
    LET r == basic_binop_string(input)
    IN  IF r.ok THEN ParseOk(r.rest, from_binop(r.value)) ELSE ParseError

\* lines 152-171
from_id(id) ==
    CASE id = <<"l", "e", "t">> -> Tk("Let")
      [] id = <<"i", "f">> -> Tk("If")
      [] id = <<"e", "l", "s", "e">> -> Tk("Else")
      [] id = <<"t", "h", "e", "n">> -> Tk("Then")
      [] id = <<"c", "a", "s", "e">> -> Tk("Case")
      [] id = <<"o", "f">> -> Tk("Of")
      [] id = <<"i", "n">> -> Tk("In")
      [] id = <<"m", "o", "d", "u", "l", "e">> -> Tk("ModuleTk")
      [] id = <<"w", "h", "e", "r", "e">> -> Tk("Where")
      [] id = <<"e", "x", "p", "o", "s", "i", "n", "g">> -> Tk("Exposing")
      [] id = <<"i", "m", "p", "o", "r", "t">> -> Tk("ImportTk")
      [] id = <<"a", "s">> -> Tk("As")
      [] id = <<"t", "y", "p", "e">> -> Tk("TypeTk")
      [] id = <<"p", "o", "r", "t">> -> Tk("Port")
      [] id = <<"a", "l", "i", "a", "s">> -> Tk("Alias")
      [] OTHER -> TkText("Id", id)

\* lines 19-23
read_id(input) ==
    IF input # <<>> /\ Head(input) \in LowerChars
    THEN LET b == many0(Tail(input), IdChars)
         IN  ParseOk(b.rest, from_id(<<Head(input)>> \o b.value))
    ELSE ParseError

\* lines 129-143: the first alternative that succeeds. Of the alternatives
\* after read_id, left_paren is the one that an input examined can match.
read_token_forced(input) ==
    LET alternatives == <<read_binop(input),
                          char_token(input, ",", "Comma"),
                          char_token(input, "|", "Pipe"),
                          read_id(input),
                          char_token(input, "(", "LeftParen")>>
        found == {i \in 1..Len(alternatives) : alternatives[i].ok}
    IN  IF found = {} THEN ParseError
        ELSE alternatives[CHOOSE i \in found : \A j \in found : i <= j]

InitTok ==
    /\ \E s \in Inputs : t_input = s \o <<" ">>
    /\ t_token = NoToken
    /\ t_rest = <<>>
    /\ t_pc = "call"
    /\ SortIdle /\ DeclIdle /\ EnvIdle /\ ModIdle /\ ImpIdle /\ EvalIdle /\ DepIdle

ReadTokenForced ==
    /\ t_pc = "call"
    /\ LET r == read_token_forced(t_input)
       IN  IF r.ok
           THEN t_token' = r.value /\ t_rest' = r.rest /\ t_pc' = "done"
           ELSE t_token' = NoToken /\ t_rest' = t_input /\ t_pc' = "error"
    /\ UNCHANGED t_input
    /\ UNCHANGED <<sortVars, declVars, envVars, modVars, impVars, evalVars, depVars>>

NextTok ==
    \/ ReadTokenForced

SpecTok == InitTok /\ [][NextTok]_vars

\* ------------------------------------------------------------------------
\* Properties of the declaration analyzer

IsAliasCall == call.fn = "analyze_type_alias"
IsAdtCall   == call.fn = "analyze_adt"

Count(seq, v) == Cardinality({i \in 1..Len(seq) : seq[i] = v})

\* The declared variables are the variables of the body, each declared once.
Balanced(decl_vars, ty) ==
    /\ Range(decl_vars) = used_vars(ty)
    /\ \A v \in Range(decl_vars) : Count(decl_vars, v) = 1

\* C4: an alias analyzes successfully exactly when its declared variables
\* are the free type variables of its body (calls that panic set aside).
C4_AliasBalance ==
    (IsAliasCall /\ ret.kind # "Panic") =>
        (ret.kind = "Ok" <=> Balanced(call.decl_vars, call.body))

\* C5: fewer distinct variables used than declared gives UnusedTypeVariables
\* with exactly the declared variables that the body lacks; more gives
\* UndeclaredTypeVariables with exactly the variables of the body that are
\* not declared; neither emits a declaration.
C5_AliasVariableErrors ==
    IsAliasCall =>
        LET used == used_vars(call.body)
            decl == call.decl_vars
        IN  /\ Cardinality(used) < Len(decl) =>
                /\ ret.kind = "Err" /\ ret.err = "UnusedTypeVariables"
                /\ ret.decls = <<>>
                /\ \A v \in TypeVars :
                      Count(ret.names, v) = IF v \in used THEN 0 ELSE Count(decl, v)
            /\ Cardinality(used) > Len(decl) =>
                /\ ret.kind = "Err" /\ ret.err = "UndeclaredTypeVariables"
                /\ ret.decls = <<>>
                /\ \A v \in TypeVars :
                      Count(ret.names, v) = IF v \in used \ Range(decl) THEN 1 ELSE 0

\* C5's case: one variable declared, two used, the undeclared one reported.
C5_Witness ==
    /\ IsAliasCall
    /\ Len(call.decl_vars) = 1
    /\ Cardinality(used_vars(call.body)) = 2
    /\ ret.err = "UndeclaredTypeVariables"
    /\ Len(ret.names) = 1

\* The right-nested function type from args to result.
RECURSIVE FunChain(_, _)
FunChain(as, result) ==
    IF as = <<>> THEN result ELSE Fun(Head(as), FunChain(Tail(as), result))

\* C6: analyze_adt emits the Adt declaration and then one Def per variant,
\* in variant order, typed args -> Tag(T, vars), which for a variant
\* without arguments is Tag(T, vars).
C6_AdtConstructorShape ==
    IsAdtCall =>
        LET tvars == [i \in 1..Len(call.decl_vars) |-> Var(call.decl_vars[i])]
            vs    == call.body
        IN  ret = Ok(<<DeclAdt(call.name, [name |-> call.name, types |-> call.decl_vars,
                                           variants |-> vs])>>
                     \o [i \in 1..Len(vs) |->
                            DeclDef(vs[i].name, FunChain(vs[i].types, Tag(call.name, tvars)))])

\* C7: an alias that is accepted emits its Alias declaration, followed, for
\* a record body, by the constructor Def from the field types, in field
\* order, to the record.
C7_RecordAliasConstructor ==
    (IsAliasCall /\ ret.kind # "Err") =>
        ret = Ok(IF call.body.t = "Record"
                 THEN <<DeclAlias(call.name, call.body),
                        DeclDef(call.name, FunChain(call.body.args, call.body))>>
                 ELSE <<DeclAlias(call.name, call.body)>>)

\* C28: no call of analyze_adt or analyze_type_alias ends in the failed
\* assertion of build_fun_type.
C28_BuildFunTypeAssertion ==
    (IsAdtCall \/ IsAliasCall) => ret.kind # "Panic"

\* ------------------------------------------------------------------------
\* Properties of the environments

\* The blocks that bind the names to values, whichever environment it is.
Blocks == IF target = "Environment" THEN env ELSE values

\* The value that the innermost block holding name gives it.
InnermostValue(stack, name, none) ==
    LET holding == {i \in 1..Len(stack) : name \in DOMAIN stack[i]}
    IN  IF holding = {} THEN none
        ELSE stack[CHOOSE i \in holding : \A j \in holding : j <= i][name]

\* C8: when exit_block closes the block that an enter_block opened, every
\* find returns what it returned before that enter_block.
C8_BlockRestoresLookups ==
    (last.op = "exit_block" /\ last.matched /\ status = "ok") => FindAll = last.seen

\* C8's case: the block left had shadowed a name with another value and had
\* bound a name that was unbound before.
C8_Witness ==
    /\ last.op = "exit_block" /\ last.matched /\ status = "ok"
    /\ target = "Environment"
    /\ LET left == last.before.env[Len(last.before.env)]
       IN  \E n, m \in EnvNames :
              /\ n \in DOMAIN left /\ last.seen[n][1] # NoVal /\ left[n] # last.seen[n][1]
              /\ m \in DOMAIN left /\ last.seen[m][1] = NoVal

\* C9: the block stack is never empty.
C9_StackNeverEmpty ==
    /\ target = "Environment" => Len(env) >= 1
    /\ target = "DynamicEnv" => Len(values) >= 1 /\ Len(types) >= 1

\* The stack after is the stack before with name bound to val in its last
\* block and nothing else changed.
OnlyInnermostChanged(before, after, name, val) ==
    /\ Len(after) = Len(before)
    /\ \A i \in 1..(Len(before) - 1) : after[i] = before[i]
    /\ DOMAIN after[Len(after)] = DOMAIN before[Len(before)] \cup {name}
    /\ after[Len(after)][name] = val
    /\ \A n \in DOMAIN before[Len(before)] \ {name} : after[Len(after)][n] = before[Len(before)][n]

\* C10: find gives the binding of the innermost block that holds the name,
\* and nothing for a name no block holds; add binds the name in the
\* innermost block and changes nothing else.
C10_AddInnermostFindInnermost ==
    status = "ok" =>
        /\ \A n \in EnvNames : Find(n)[1] = InnermostValue(Blocks, n, NoVal)
        /\ target = "DynamicEnv" =>
              \A n \in EnvNames : Find(n)[2] = InnermostValue(types, n, NoTy)
        /\ last.op = "add" =>
              /\ Find(last.name)[1] = last.val
              /\ target = "Environment" =>
                    OnlyInnermostChanged(last.before.env, env, last.name, last.val)
              /\ target = "DynamicEnv" =>
                    /\ OnlyInnermostChanged(last.before.values, values, last.name, last.val)
                    /\ OnlyInnermostChanged(last.before.types, types, last.name, last.ty)

\* C10's case: a name added in an inner block over a different outer
\* binding, which is still there.
C10_Witness ==
    /\ status = "ok" /\ target = "Environment" /\ last.op = "add"
    /\ Len(env) >= 2
    /\ last.name \in DOMAIN env[1]
    /\ env[1][last.name] # last.val
    /\ last.name \in DOMAIN last.before.env[Len(env)]
    /\ last.before.env[Len(env)][last.name] # last.val

\* C30: in a DynamicEnv the values and the types are equally deep; find
\* gives a value and a type for exactly the names that a block of values
\* holds; and neither enter_block nor exit_block changes the cache or
\* next_fun_id.
C30_DynamicEnvInLockstep ==
    /\ [](Len(values) = Len(types))
    /\ [](status = "ok" =>
             \A n \in EnvNames :
                 /\ Find(n)[1] # NoVal <=> \E i \in 1..Len(values) : n \in DOMAIN values[i]
                 /\ Find(n)[1] # NoVal <=> Find(n)[2] # NoTy)
    /\ [][(DynEnterBlock \/ DynExitBlock) =>
             (cache' = cache /\ next_fun_id' = next_fun_id)]_vars

\* C30's case: a block was left after ids were handed out and a result was
\* cached, and a name bound in the outer block is found.
C30_Witness ==
    /\ target = "DynamicEnv" /\ status = "ok"
    /\ last.op = "exit_block" /\ last.matched
    /\ next_fun_id > 0 /\ cache # {}
    /\ \E n \in EnvNames : n \in DOMAIN values[1] /\ Find(n)[1] # NoVal
    /\ \E n \in EnvNames : Find(n)[1] = NoVal

\* ------------------------------------------------------------------------
\* Properties of the sorter

\* S at i references the name of the statement at j.
References(ss, i, j) == get_stm_name(ss[j]) \in Range(ss[i].uses)

RefEdges(ss) == {e \in (1..Len(ss)) \X (1..Len(ss)) : References(ss, e[1], e[2])}

\* Some statement reaches itself along references (a statement that
\* references itself counts as a cycle here).
HasCycle(ss) == \E i \in 1..Len(ss) : <<i, i>> \in Closure(RefEdges(ss))

DistinctNames(ss) == \A i, j \in 1..Len(ss) : i # j => get_stm_name(ss[i]) # get_stm_name(ss[j])

Returned == pc \in {"done", "cycle"}

Before(s, t, order) ==
    \E k, l \in 1..Len(order) : k < l /\ order[k] = s /\ order[l] = t

\* C1: for statements without a dependency cycle (and with distinct names),
\* the order returned places every statement after the statements whose
\* names it references.
C1_SortRespectsDependencies ==
    (Returned /\ DistinctNames(stms) /\ ~HasCycle(stms)) =>
        \A i, j \in 1..Len(stms) :
            (i # j /\ References(stms, i, j)) => Before(stms[j], stms[i], res)

\* The indexes of S in ascending order.
RECURSIVE Ascending(_)
Ascending(S) ==
    IF S = {} THEN <<>>
    ELSE LET m == CHOOSE x \in S : \A y \in S : x <= y
         IN  <<m>> \o Ascending(S \ {m})

\* C3: in a round that finds statements left but no leaf, the function
\* returns what it had emitted, in that order, followed by every statement
\* not emitted, in source order.
C3_CycleFallbackOrder ==
    [][(pc = "loop" /\ pc' = "cycle") =>
          LET left == Ascending({i \in 1..Len(stms) : stms[i] \notin Range(res)})
          IN  /\ Len(res') = Len(res) + Len(left)
              /\ \A k \in 1..Len(res) : res'[k] = res[k]
              /\ \A k \in 1..Len(left) : res'[Len(res) + k] = stms[left[k]]]_vars

\* C3's case: a fallback after some statements were emitted, with several
\* statements left, the first statement of the source among those left.
C3_Witness ==
    /\ pc = "cycle"
    /\ Cardinality(DOMAIN dependencies) >= 2
    /\ Len(res) > Cardinality(DOMAIN dependencies)
    /\ res[1] # stms[1]
    /\ DistinctNames(stms)

\* The position in the source of the statement a name stands for in the map.
SourceIndex(name) ==
    CHOOSE i \in 1..Len(stms) : stms[i] = dependencies[name].stm

\* C19: the leaves of one round are taken, and so appended to the result, in
\* the order the statements have in the source.
C19_LeavesInSourceOrder ==
    [][(pc = "loop" /\ pc' = "leafs" /\ DistinctNames(stms)) =>
          \A k, l \in 1..Len(leafs') :
              k < l => SourceIndex(leafs'[k]) < SourceIndex(leafs'[l])]_vars

\* C22: when a leaf has been appended to the result, its name stands in the
\* dependency list of no statement left in the map, however often it stood
\* there.
C22_LeafNamePurged ==
    [][(pc = "leafs" /\ leafs # <<>>) =>
          /\ pc' # "panic"
          /\ \A k \in DOMAIN dependencies' :
                Head(leafs) \notin Range(dependencies'[k].deps)]_vars

\* C25: the list returned is a permutation of the statements given.
C25_ResultIsPermutation ==
    Returned =>
        /\ Len(res) = Len(stms)
        /\ \A s \in Range(stms) \cup Range(res) : Count(res, s) = Count(stms, s)

\* C26: when the statements reference nothing but themselves, every one of
\* them is emitted as a leaf: the sorter neither takes its cycle fallback
\* nor fails.
C26_SelfReferenceIsLeaf ==
    (DistinctNames(stms)
        /\ \A i \in 1..Len(stms) : Range(stms[i].uses) \subseteq {get_stm_name(stms[i])})
    => pc \notin {"cycle", "panic"}

\* C27: a Def that uses the constructor of an Adt of the same list stands
\* after that Adt in the order returned.
C27_ConstructorUseAfterAdt ==
    (Returned /\ DistinctNames(stms)) =>
        \A i, j \in 1..Len(stms) :
            (/\ stms[i].kind = "Def" /\ stms[j].kind = "Adt"
             /\ CtorOf(get_stm_name(stms[j])) \in Range(stms[i].uses))
            => Before(stms[j], stms[i], res)

\* ------------------------------------------------------------------------
\* Properties of analyze_module_declarations

\* The statements that reach themselves along references to other
\* statements.
CycleMembers(ss) ==
    LET reach == Closure({e \in RefEdges(ss) : e[1] # e[2]})
    IN  {i \in 1..Len(ss) : <<i, i>> \in reach}

Sorted == sort_statements(m_stms).sorted

\* The module returned without a cycle, an error or a panic.
ModuleOk == m_pc = "done" /\ m_result.kind = "Ok"

\* C11: at the end of an analysis without errors, every Infix statement
\* whose underlying value is a definition of the module has given
\* Def(op, type of the underlying value), and op is bound to that type in
\* the environment.
C11_InfixResolvedAfterAll ==
    ModuleOk =>
        \A i, j \in 1..Len(m_stms) :
            (m_stms[i].kind = "Infix" /\ m_stms[j].kind = "Def"
                /\ m_stms[j].name = m_stms[i].def) =>
                /\ m_stms[i].def \in DOMAIN m_env.definitions
                /\ DeclDef(m_stms[i].name, m_env.definitions[m_stms[i].def])
                       \in Range(m_result.decls)
                /\ m_stms[i].name \in DOMAIN m_env.definitions
                /\ m_env.definitions[m_stms[i].name] = m_env.definitions[m_stms[i].def]

\* What analyze_statement gives for each sorted statement in turn, the
\* environment extended by the declarations of those before it.
RECURSIVE Outcomes(_, _)
Outcomes(e, ss) ==
    IF ss = <<>> THEN <<>>
    ELSE LET r == analyze_statement(e, Head(ss))
         IN  <<r>> \o Outcomes(add_declarations(e, r.decls), Tail(ss))

\* C12: without a cycle, analyze_module_declarations returns the errors of
\* the failing statements, one each, in sorted order, when a statement
\* failed, and otherwise Ok with the declarations of all statements in
\* sorted order.
C12_ErrorsCollected ==
    (m_pc = "done" /\ cycle_names(m_stms) = {}) =>
        LET out    == Outcomes(EmptyEnv, Sorted)
            errors == SelectSeq(out, LAMBDA r : r.kind = "Err")
        IN  /\ m_result.kind \in {"Ok", "Err"}
            /\ errors # <<>> => m_result = ResList(errors)
            /\ errors = <<>> =>
                  /\ m_result.kind = "Ok"
                  /\ m_result.decls = Flatten([k \in 1..Len(out) |-> out[k].decls])

\* C13: when analyze_module_declarations returns an error the environment
\* of the caller is as it was passed in.
C13_NoPartialEnvironment ==
    (m_pc = "done" /\ m_result.kind = "Err") => m_env = EmptyEnv

\* The environment binds the declaration, under its name and as it was
\* declared.
Bound(e, decl) ==
    CASE decl.d = "Def"   -> decl.name \in DOMAIN e.definitions /\ e.definitions[decl.name] = decl.ty
      [] decl.d = "Alias" -> decl.name \in DOMAIN e.aliases /\ e.aliases[decl.name] = decl.ty
      [] OTHER            -> decl.name \in DOMAIN e.adts /\ e.adts[decl.name] = decl.adt

\* The place, in the sorted statements, of the statement that declares name.
DeclaredAt(sorted, name) ==
    CHOOSE k \in 1..Len(sorted) :
        name \in {get_stm_name(sorted[k]), CtorOf(get_stm_name(sorted[k]))}

TargetDecls == modules[1].declarations

\* The function type ty ends in the type tagged T.
RECURSIVE ReturnsTag(_, _)
ReturnsTag(ty, T) ==
    IF ty.t = "Fun" THEN ReturnsTag(ty.args[2], T) ELSE ty.t = "Tag" /\ ty.name = T

\* The exposing item selects the declaration d.
Selects(item, d) ==
    CASE item.e \in {"Definition", "BinaryOperator"} -> d.d = "Def" /\ d.name = item.name
      [] item.e = "Type" -> d.d \in {"Alias", "Adt"} /\ d.name = item.name
      [] OTHER ->
           \/ d.d = "Adt" /\ d.name = item.name
           \/ /\ d.d = "Def" /\ ReturnsTag(d.ty, item.name)
              /\ (item.all \/ d.name \in Range(item.variants))

\* The declaration d is bound, as it is, under the name key.
BoundAs(key, d) ==
    CASE d.d = "Def"   -> key \in DOMAIN i_env.definitions /\ i_env.definitions[key] = d.ty
      [] d.d = "Alias" -> key \in DOMAIN i_env.aliases /\ i_env.aliases[key] = d.ty
      [] OTHER         -> key \in DOMAIN i_env.adts /\ i_env.adts[key] = d.adt

\* C14: after an import with the exposing list Just(list) the declarations
\* of the target module bound under their unqualified names are exactly
\* those the list selects.
C14_ExposedListOnly ==
    (i_pc = "done" /\ i_ret.kind = "Ok" /\ impl # "get_exposed_decls"
        /\ imports[1].exposing.m = "Just") =>
        \A k \in 1..Len(TargetDecls) :
            BoundAs(<<TargetDecls[k].name>>, TargetDecls[k])
            <=> \E item \in Range(imports[1].exposing.list) : Selects(item, TargetDecls[k])

\* C15: after the import of a module that is there, whatever its alias and
\* exposing clause, every declaration of the module is bound under
\* prefix.name, the prefix being the alias or else the module path.
C15_QualifiedNames ==
    (i_pc = "done" /\ impl # "get_exposed_decls"
        /\ modules_get(modules, imports[1].path) # <<>>) =>
        LET prefix == IF imports[1].alias # <<>> THEN imports[1].alias ELSE imports[1].path
        IN  \A k \in 1..Len(TargetDecls) :
                BoundAs(Append(prefix, TargetDecls[k].name), TargetDecls[k])

ExposedCall == impl = "get_exposed_decls" /\ i_pc = "done"
Exposed == imports[1].exposing.list

\* C16: for the single item Definition(n) or BinaryOperator(n),
\* get_exposed_decls returns the Def named n, and MissingExposing when the
\* module has none.
C16_DefinitionOrOperator ==
    (ExposedCall /\ Len(Exposed) = 1 /\ Exposed[1].e \in {"Definition", "BinaryOperator"}) =>
        LET defs == SelectSeq(TargetDecls, LAMBDA d : d.d = "Def" /\ d.name = Exposed[1].name)
        IN  IF defs = <<>>
            THEN i_ret = ImportErr("MissingExposing", <<Exposed[1].name>>)
            ELSE i_ret = [ImportOk EXCEPT !.decls = <<defs[1]>>]

\* C17: for the single item Adt(T, All), get_exposed_decls returns the Adt
\* declaration of T and every Def whose type ends in Tag(T, ..), each once
\* and nothing else, and MissingExposing when the module has no Adt T.
C17_AdtAllSelection ==
    (ExposedCall /\ Len(Exposed) = 1 /\ Exposed[1].e = "Adt" /\ Exposed[1].all) =>
        LET T == Exposed[1].name
        IN  IF \E d \in Range(TargetDecls) : d.d = "Adt" /\ d.name = T
            THEN /\ i_ret.kind = "Ok"
                 /\ Range(i_ret.decls) =
                       {d \in Range(TargetDecls) :
                           \/ d.d = "Adt" /\ d.name = T
                           \/ d.d = "Def" /\ ReturnsTag(d.ty, T)}
                 /\ Len(i_ret.decls) = Cardinality(Range(i_ret.decls))
            ELSE i_ret = ImportErr("MissingExposing", <<T>>)

\* C17's case: a module with the Adt, both of its constructors and other
\* declarations, of which the three come back.
C17_Witness ==
    /\ ExposedCall /\ Exposed = <<ExpAdt("T", TRUE, <<>>)>>
    /\ TargetDecls = DeclPool
    /\ i_ret.kind = "Ok" /\ Len(i_ret.decls) = 3

\* C18: once an import has been entered, the same import entered again
\* succeeds and leaves the environment as it was after the first time.
C18_ImportIdempotent ==
    (impl # "get_exposed_decls" /\ i_after # <<>>) =>
        /\ i_env = i_after[1]
        /\ i_pc = "done" => i_ret.kind = "Ok"

\* C18's case: an aliased import with an exposing clause entered twice,
\* which binds qualified and unqualified names.
C18_Witness ==
    /\ impl = "module_helper" /\ i_pc = "done" /\ Len(i_after) >= 2
    /\ imports[1].alias # <<>> /\ imports[1].exposing.m = "All"
    /\ <<"f">> \in DOMAIN i_env.definitions
    /\ <<"N", "f">> \in DOMAIN i_env.definitions
    /\ <<"N", "T">> \in DOMAIN i_env.adts

\* C29: after Analyzer::analyze_import of an import without an exposing
\* clause, into an environment that bound nothing, no declaration of the
\* target module is bound under its unqualified name.
C29_QualifiedOnly ==
    (impl = "module_helper" /\ Len(i_after) >= 1 /\ imports[1].exposing.m = "None") =>
        \A k \in 1..Len(TargetDecls) :
            /\ <<TargetDecls[k].name>> \notin DOMAIN i_after[1].definitions
            /\ <<TargetDecls[k].name>> \notin DOMAIN i_after[1].aliases
            /\ <<TargetDecls[k].name>> \notin DOMAIN i_after[1].adts

\* ------------------------------------------------------------------------
\* Properties of eval_statement

\* What DynamicEnv::find gives for a name after the evaluation: the value of
\* the innermost map that holds the name, with the type of the innermost
\* block that defines it; empty if either is missing.
Innermost(stack, name) ==
    LET ks == {k \in 1..Len(stack) : name \in DOMAIN stack[k]}
    IN  IF ks = {} THEN {}
        ELSE {stack[CHOOSE k \in ks : \A l \in ks : l <= k][name]}

EvalFind(name) == Innermost(e_values, name) \X Innermost(e_types, name)

\* C20: once eval_statement has run on an Adt statement it has returned
\* Ok(None), and every variant without arguments is bound to the value
\* Adt(C, [], T) with the type Tag(T, vars).
C20_ZeroArgVariantsBound ==
    (e_pc \in {"done", "panic"} /\ e_stm.kind = "Adt") =>
        /\ e_ret = EvalOkNone
        /\ \A i \in 1..Len(e_stm.variants) :
              e_stm.variants[i].types = <<>> =>
                  EvalFind(e_stm.variants[i].name) =
                      {<<ValueAdt(e_stm.variants[i].name, e_stm.name),
                         Tag(e_stm.name, [k \in 1..Len(e_stm.vars) |-> Var(e_stm.vars[k])])>>}


\* ------------------------------------------------------------------------
\* Properties of get_stm_dependencies

\* The names a Let binds for its declarations and its body: the names of
\* its definitions and the variables of its patterns.
LetBound(decls) ==
    UNION {IF decls[i].d = "Def" THEN {decls[i].name} ELSE Range(decls[i].patterns) :
           i \in 1..Len(decls)}

\* The names used by expr (as Ref, QualifiedRef, RecordUpdate or operator)
\* at a place where none of bound, no pattern of an enclosing Lambda
\* and no binding of an enclosing Let binds them.
RECURSIVE FreeNames(_, _)
FreeNames(expr, bound) ==
    LET Below(bs) == UNION {FreeNames(expr.subs[i], bs) : i \in 1..Len(expr.subs)}
    IN  CASE expr.k \in {"Ref", "RecordUpdate"} -> {expr.name} \ bound
          [] expr.k = "QualifiedRef" -> {qualified_name(expr.ops, expr.name)} \ bound
          [] expr.k = "OpChain" -> (Range(expr.ops) \ bound) \cup Below(bound)
          [] expr.k = "Lambda" -> Below(bound \cup Range(expr.pats))
          [] expr.k = "Let" ->
               LET inside == bound \cup LetBound(expr.decls)
               IN  UNION {FreeNames(expr.subs[i],
                                    IF i <= Len(expr.decls) /\ expr.decls[i].d = "Def"
                                    THEN inside \cup Range(expr.decls[i].patterns)
                                    ELSE inside) : i \in 1..Len(expr.subs)}
          [] OTHER -> Below(bound)

\* C23: get_stm_dependencies of a Def returns the names that are used in its
\* expression where neither the argument patterns nor an enclosing Lambda or
\* Let binds them, and no others; the environment of the walk ends with the
\* block depth it began with.
C23_FreeNamesOfDef ==
    d_pc \in {"done", "panic"} =>
        /\ d_pc = "done"
        /\ Range(d_deps) = FreeNames(d_def.expr, Range(d_def.patterns))
        /\ Len(d_env) = Len(StaticEnv_new)


\* ------------------------------------------------------------------------
\* Properties of read_token_forced

\* How many characters at the start of input are operator characters.
RECURSIVE RunLength(_)
RunLength(input) ==
    IF input = <<>> \/ Head(input) \notin BinopChars THEN 0 ELSE 1 + RunLength(Tail(input))

\* The token that stands for a run of operator characters.
TokenOfRun(run) ==
    CASE run = <<"=">>      -> "Equals"
      [] run = <<":">>      -> "Colon"
      [] run = <<".">>      -> "Dot"
      [] run = <<".", ".">> -> "DoubleDot"
      [] run = <<"<", "-">> -> "LeftArrow"
      [] run = <<"-", ">">> -> "RightArrow"
      [] run = <<"\\">>     -> "BackSlash"
      [] run = <<"_">>      -> "Underscore"
      [] OTHER              -> "BinaryOperator"

\* C21: on an input that begins with operator characters, read_token_forced
\* consumes the whole run of them and returns the token of that run: the
\* dedicated token for =, :, ., .., <-, ->, \ and _, and for every other
\* run BinaryOperator with the run as its text.
C21_OperatorRunAsWhole ==
    (t_pc # "call" /\ RunLength(t_input) > 0) =>
        LET n   == RunLength(t_input)
            run == SubSeq(t_input, 1, n)
        IN  /\ t_pc = "done"
            /\ t_rest = SubSeq(t_input, n + 1, Len(t_input))
            /\ t_token.token = TokenOfRun(run)
            /\ t_token.text = IF TokenOfRun(run) = "BinaryOperator" THEN run ELSE <<>>

\* C21's case: the run <-- has been read as one operator.
C21_Witness ==
    /\ t_pc = "done"
    /\ t_token = TkText("BinaryOperator", <<"<", "-", "-">>)
    /\ t_rest = <<" ">>


====
